---- MODULE Spec2Model ----
(***************************************************************************)
(* A model of the HTTP test client of QA_Automation:                       *)
(*   config/config.py      Config (_load_config, the properties, update)   *)
(*   utils/api_client.py   APIClient (_create_session, _build_url,         *)
(*                         request, set_auth_token, set_basic_auth,        *)
(*                         add_header, remove_header)                      *)
(*   utils/assertions.py   APIAssertions (status, schema and path checks)  *)
(*   utils/advanced_assertions.py   AdvancedAPIAssertions                  *)
(*                         (assert_status_code)                            *)
(*   utils/decorators.py   api_test, retry_on_failure                      *)
(*   utils/enhanced_logging.py   EnhancedLogger (__new__, __init__,        *)
(*                         test_context, log_api_request, the sanitizers)  *)
(*   utils/performance_benchmarking.py   the workers of run_load_test      *)
(*   dashboard/web_dashboard.py   add_test_result, the data collector      *)
(*   tests/api/test_auth.py   test_token_based_authentication              *)
(* Strings are sequences of one-character strings, so that startswith,     *)
(* rstrip, lstrip, split and urljoin are computed, not assumed.            *)
(***************************************************************************)
EXTENDS Integers, Sequences, FiniteSets, TLC

\* ------------------------------------------------------------------ bounds
MaxEndpointLen == 4
MaxRetry == 2
MaxCalls == 2
MaxRepeats == 2

\* the largest retry_count handed to api_test
MaxRetryCount == 3

\* the number of test_context blocks entered
MaxBlocks == 2

\* the number of requests handed to log_api_request
MaxLogged == 2

\* the dashboard keeps the last 1000 results and the last 100 points of a
\* series, the collector adds a sample result while there are fewer than
\* 50: the three limits, scaled down
ResultsLimit == 2
SeriesLimit == 2
SampleLimit == 1

\* the number of results appended and of collector iterations
MaxInserted == 4
MaxSamples == 3

\* ----------------------------------------------------------------- strings
HTTP == <<"h", "t", "t", "p", ":", "/", "/">>
HTTPS == <<"h", "t", "t", "p", "s", ":", "/", "/">>

\* str.startswith(prefix)
StartsWith(s, p) == Len(s) >= Len(p) /\ SubSeq(s, 1, Len(p)) = p

\* str.rstrip(c)
RECURSIVE RStrip(_, _)
RStrip(s, c) ==
    IF s # <<>> /\ s[Len(s)] = c THEN RStrip(SubSeq(s, 1, Len(s) - 1), c) ELSE s

\* str.lstrip(c)
RECURSIVE LStrip(_, _)
LStrip(s, c) ==
    IF s # <<>> /\ s[1] = c THEN LStrip(Tail(s), c) ELSE s

\* str.split(c): always at least one (possibly empty) part
RECURSIVE Split(_, _)
Split(s, c) ==
    IF \A i \in 1..Len(s) : s[i] # c
    THEN <<s>>
    ELSE LET k == CHOOSE i \in 1..Len(s) :
                      s[i] = c /\ \A j \in 1..(i - 1) : s[j] # c
         IN <<SubSeq(s, 1, k - 1)>> \o Split(SubSeq(s, k + 1, Len(s)), c)

\* c.join(parts)
RECURSIVE Join(_, _)
Join(parts, c) ==
    IF parts = <<>> THEN <<>>
    ELSE IF Len(parts) = 1 THEN parts[1]
    ELSE parts[1] \o <<c>> \o Join(Tail(parts), c)

\* filter(None, parts): drop the empty parts
RECURSIVE FilterNonEmpty(_)
FilterNonEmpty(parts) ==
    IF parts = <<>> THEN <<>>
    ELSE IF parts[1] = <<>> THEN FilterNonEmpty(Tail(parts))
    ELSE <<parts[1]>> \o FilterNonEmpty(Tail(parts))

DOT == <<".">>
DOTDOT == <<".", ".">>

\* the loop of urljoin that resolves '.' and '..' segments
RECURSIVE ResolveSegments(_, _)
ResolveSegments(segments, resolved_path) ==
    IF segments = <<>> THEN resolved_path
    ELSE IF segments[1] = DOTDOT
         THEN ResolveSegments(Tail(segments),
                  IF resolved_path = <<>> THEN <<>>
                  ELSE SubSeq(resolved_path, 1, Len(resolved_path) - 1))
    ELSE IF segments[1] = DOT
         THEN ResolveSegments(Tail(segments), resolved_path)
    ELSE ResolveSegments(Tail(segments), Append(resolved_path, segments[1]))

\* urlparse(base) for a base of the form scheme://netloc[/path]: the index
\* of the first '/' after "://", or Len+1 when the path is empty
PathStart(base) ==
    LET p == IF StartsWith(base, HTTPS) THEN Len(HTTPS) ELSE Len(HTTP)
        rest == {i \in (p + 1)..Len(base) : base[i] = "/"}
    IN IF rest = {} THEN Len(base) + 1
       ELSE CHOOSE i \in rest : \A j \in rest : i <= j

\* urllib.parse.urljoin(base, url) for an http(s) base without query or
\* fragment and a url that is a relative path (no scheme, no netloc, no
\* query, no fragment): the cases _build_url produces from the modelled
\* alphabet
urljoin(base, url) ==
    IF base = <<>> THEN url
    ELSE IF url = <<>> THEN base
    ELSE
      LET prefix == SubSeq(base, 1, PathStart(base) - 1)
          bpath == SubSeq(base, PathStart(base), Len(base))
          split_b == Split(bpath, "/")
          base_parts == IF split_b[Len(split_b)] # <<>>
                        THEN SubSeq(split_b, 1, Len(split_b) - 1)
                        ELSE split_b
          joined == base_parts \o Split(url, "/")
          segments == IF url[1] = "/" THEN Split(url, "/")
                      ELSE <<joined[1]>>
                           \o FilterNonEmpty(SubSeq(joined, 2, Len(joined) - 1))
                           \o <<joined[Len(joined)]>>
          resolved == ResolveSegments(segments, <<>>)
          resolved_path == IF segments[Len(segments)] \in {DOT, DOTDOT}
                           THEN Append(resolved, <<>>)
                           ELSE resolved
          path == IF Join(resolved_path, "/") = <<>> THEN <<"/">>
                  ELSE Join(resolved_path, "/")
          \* urlunparse: with a netloc, a path gets its leading '/'
      IN prefix \o (IF path[1] # "/" THEN <<"/">> \o path ELSE path)

_build_url_https_only(base, endpoint) ==
    IF StartsWith(endpoint, HTTPS)
    THEN endpoint
    ELSE urljoin(RStrip(base, "/") \o <<"/">>, LStrip(endpoint, "/"))

_build_url_no_lstrip(base, endpoint) ==
    IF StartsWith(endpoint, HTTP) \/ StartsWith(endpoint, HTTPS)
    THEN endpoint
    ELSE urljoin(RStrip(base, "/") \o <<"/">>, endpoint)

\* APIClient._build_url
_build_url(base, endpoint) ==
    IF StartsWith(endpoint, HTTP) \/ StartsWith(endpoint, HTTPS)
    THEN endpoint
    ELSE urljoin(RStrip(base, "/") \o <<"/">>, LStrip(endpoint, "/"))

\* --------------------------------------------------------- program values
\* Retry(status_forcelist=[429, 500, 502, 503, 504])
status_forcelist == {429, 500, 502, 503, 504}

\* Retry(allowed_methods=[...]): PATCH is not among them
allowed_methods == {"HEAD", "GET", "PUT", "DELETE", "OPTIONS", "TRACE", "POST"}

\* the methods of the convenience wrappers that the model issues
Methods == {"GET", "POST", "PATCH"}

\* what the target can answer to one attempt: a connection failure or a
\* final (non-redirect) status without a Retry-After header
CONNFAIL == 0
TargetStatuses == {200, 404, 429, 503}
Outcomes == {CONNFAIL} \cup TargetStatuses

\* header names stand for themselves in any letter case (session.headers is
\* case-insensitive)
HeaderNames == {"Authorization", "Accept"}
HeaderValues == {<<"v1">>, <<"v2">>}
Tokens == {"abc", "xyz"}
AuthTypes == {"Bearer", "Token"}

\* per-call headers: a mapping over some of the names (the empty mapping
\* stands for headers=None and headers={} alike, the code tests `if headers`)
PerCallHeaders ==
    UNION {[dom -> HeaderValues] : dom \in SUBSET HeaderNames}

\* Optional[int] is a sequence of length 0 (None) or 1
NoTimeout == <<>>
TimeoutArgs == {NoTimeout, <<0>>, <<5>>}
ConfigTimeouts == {0, 30}
ElapsedTimes == {1, 2}

\* the endpoint of the calls of Spec and SpecHeaders (the URL builder is
\* checked on all endpoints up to MaxEndpointLen under SpecUrl)
CallEndpoints == {<<"/", "a">>}

\* Config._default_config()["headers"] restricted to HeaderNames
DefaultHeaders == [n \in {"Accept"} |-> <<"application/json">>]

NoResponse == [call |-> 0, status |-> 0]
NoException == [call |-> 0, type |-> "None"]

\* ----------------------------------------------------------- JSON values
\* A JSON value as json.load / response.json() returns it: None, an int, a
\* str, a list or a dict.  Every value has all five fields, so that any two
\* values can be compared.
JValue(type, num, str, items, fields) ==
    [type |-> type, num |-> num, str |-> str, items |-> items,
     fields |-> fields]

JNull == JValue("null", 0, <<>>, <<>>, <<>>)
JInt(n) == JValue("int", n, <<>>, <<>>, <<>>)
JStr(chars) == JValue("str", 0, chars, <<>>, <<>>)
JList(items) == JValue("list", 0, <<>>, items, <<>>)
JObj(fields) == JValue("dict", 0, <<>>, <<>>, fields)

\* a Python tuple: a value json.dumps accepts and no JSON document holds
PyTuple(items) == JValue("tuple", 0, <<>>, items, <<>>)

\* ---------------------------------------------------- configuration values
ApplicationJson == <<"application/json">>

\* Config._default_config()
_default_config ==
    [base_url |-> HTTPS \o <<"jsonplaceholder.typicode.com">>,
     timeout |-> 30,
     retry_count |-> 3,
     retry_delay |-> 1,
     headers |-> [n \in {"Content-Type", "Accept"} |-> ApplicationJson]]

\* the environment names a Config is asked for
EnvNames == {"dev", "staging", "prod"}

\* sub-mappings an environments.json holds for an environment: a complete
\* one, one with a single key, and one with values nothing validates
CompleteSettings ==
    [base_url |-> HTTPS \o <<"s">>, timeout |-> 5, retry_count |-> 1,
     retry_delay |-> 2, headers |-> [n \in {"Accept"} |-> <<"text/plain">>]]

PartialSettings == [n \in {"timeout"} |-> 10]

UnvalidatedSettings ==
    [base_url |-> HTTPS \o <<"s", "/">>, timeout |-> 0 - 1,
     retry_count |-> 0 - 1, retry_delay |-> 0 - 1]

ConfigFile(kind, envs) == [kind |-> kind, envs |-> envs]

\* what open() and json.load can find at config/environments.json: no file,
\* text that is not JSON, bytes that are not text, a JSON array, or a JSON
\* object of environments
ConfigFiles ==
    {ConfigFile("absent", <<>>),
     ConfigFile("invalid_json", <<>>),
     ConfigFile("undecodable", <<>>),
     ConfigFile("array", <<>>),
     ConfigFile("object", <<>>),
     ConfigFile("object", [e \in {"dev"} |-> CompleteSettings]),
     ConfigFile("object", [e \in {"dev"} |-> PartialSettings]),
     ConfigFile("object", [e \in {"staging"} |-> CompleteSettings]),
     ConfigFile("object", [e \in {"dev", "staging"} |->
                    IF e = "dev" THEN UnvalidatedSettings
                    ELSE CompleteSettings]),
     ConfigFile("object", [e \in {"dev", "staging"} |->
                    IF e = "dev" THEN CompleteSettings
                    ELSE UnvalidatedSettings])}

\* dict.get(key, default)
Config_get(data, key, default) ==
    IF key \in DOMAIN data THEN data[key] ELSE default

\* the properties of Config
Config_base_url(data) ==
    Config_get(data, "base_url", HTTPS \o <<"jsonplaceholder.typicode.com">>)

Config_timeout(data) == Config_get(data, "timeout", 30)

Config_retry_count(data) == Config_get(data, "retry_count", 3)

Config_retry_delay(data) == Config_get(data, "retry_delay", 1)

Config_headers(data) ==
    Config_get(data, "headers",
               [n \in {"Content-Type", "Accept"} |-> ApplicationJson])

\* the five settings as the properties give them
EffectiveSettings(data) ==
    [base_url |-> Config_base_url(data),
     timeout |-> Config_timeout(data),
     retry_count |-> Config_retry_count(data),
     retry_delay |-> Config_retry_delay(data),
     headers |-> Config_headers(data)]

ResolveEnvironment_default_fallback(all_configs, env) ==
    IF env \in DOMAIN all_configs THEN all_configs[env] ELSE _default_config

\* all_configs.get(self.environment, all_configs.get('dev', {}))
ResolveEnvironment(all_configs, env) ==
    IF env \in DOMAIN all_configs THEN all_configs[env]
    ELSE IF "dev" \in DOMAIN all_configs THEN all_configs["dev"]
    ELSE <<>>

LoadResult(raised, data, lines) ==
    [raised |-> raised, data |-> data, log |-> lines]

\* Config._load_config: the levels of the lines it logs, what it returns
\* and the exception that leaves it ("None" when it returns).  Bytes that
\* the text file cannot decode make json.load raise UnicodeDecodeError, and
\* a JSON array has no get(): nothing catches these two.
_load_config(file, env) ==
    CASE file.kind = "absent" ->
            LoadResult("None", _default_config, <<"WARNING">>)
      [] file.kind = "invalid_json" ->
            LoadResult("None", _default_config, <<"ERROR">>)
      [] file.kind = "undecodable" ->
            LoadResult("UnicodeDecodeError", <<>>, <<>>)
      [] file.kind = "array" ->
            LoadResult("AttributeError", <<>>, <<>>)
      [] OTHER ->
            LoadResult("None", ResolveEnvironment(file.envs, env), <<>>)

\* ------------------------------------------------- assertion-layer values
\* a requests.Response as the checks read it: status_code, url, what json()
\* gives (is_json FALSE: json() raises JSONDecodeError), and the json_data
\* of the request it answers (None for a request without one)
Response(status_code, url, is_json, body, json_data) ==
    [status_code |-> status_code, url |-> url, is_json |-> is_json,
     body |-> body, json_data |-> json_data]

NoCheckedResponse == Response(0, <<>>, FALSE, JNull, JNull)

\* the expected_code arguments of assert_status_code
ExpectedStatuses == {200, 404}

\* message=None
NoMessage == [template |-> "None", args |-> <<>>]

\* how a call of a check ended ("passed" or the type of the exception that
\* left it), the exception's message and context attribute, and the log
\* lines in the order they were emitted, all of them before the call ended
CheckResult(outcome, message, has_context, context, lines) ==
    [outcome |-> outcome, message |-> message, has_context |-> has_context,
     context |-> context, log |-> lines]

NoOutcome == [outcome |-> "none", calls |-> 0]

NoAssertion ==
    [layer |-> "none", check |-> "none", args |-> <<>>,
     result |-> CheckResult("none", NoMessage, FALSE, <<>>, <<>>)]

\* ------------------------------------------------------------------ state
VARIABLES
    config_data,     \* Config.config_data: timeout and retry_count
    base_url,        \* APIClient.base_url
    session_headers, \* APIClient.session.headers
    session_auth,    \* APIClient.session.auth: <<>> or <<user, password>>
    retry_total,     \* Retry.total of the adapter mounted by _create_session
    last_response,   \* APIClient.last_response
    response_time,   \* APIClient.response_time
    timed_call,      \* history: the call whose elapsed time response_time holds
    pc,              \* "idle", "sending", "respond" or "fail"
    call,            \* the call in progress, or the last one when idle
    log,             \* the lines api_logger got from the current/last call
    ncalls,          \* number of calls started
    header_history,  \* history: per header name, the last operation on the
                     \* session default (set_auth_token and add_header set
                     \* it, remove_header removes it) and the value it set
    config_file,     \* config/environments.json as it is on disk
    environment,     \* Config.environment
    config_pc,       \* "unloaded", "loaded" or "raised": Config.__init__
    config_log,      \* the lines logger got from Config._load_config
    loaded_data,     \* history: what Config._load_config returned
    checked_response, \* the response handed to the assertion layer
    assertion,       \* the last call of a check of the assertion layer
    first_outcome,   \* history: per expected status, how the first
                     \* api_assert.assert_status_code on the response
                     \* ended and how many have been made (up to MaxRepeats)
    threads,   \* per worker thread of a load test: its position in
                     \* APIClient.request on the shared client and its locals
    test_pc,   \* the position of test_token_based_authentication
    decorated,   \* api_test(retry_count=n)(func): n and what func does
    retry_pc,   \* "undecorated", "ready", "running" or "done"
    _tries,   \* _tries of retry.api.__retry_internal
    invocations,   \* how many times func has been invoked
    test_outcome,   \* how the call of the decorated function ended
    current_context,   \* EnhancedLogger.current_context
    performance_metrics,   \* EnhancedLogger.performance_metrics
    log_entries,   \* EnhancedLogger.log_entries
    blocks,   \* the test_context blocks that are open, innermost last:
                     \* the locals of each generator frame
    uuids,   \* how many uuid4() have been drawn
    last_exit,   \* how the last with-statement on test_context ended
    api_requests,   \* history: the headers and the body each log_api_request
                     \* call was given, as the caller holds them after the call
    test_results,   \* APITestingDashboard.test_results
    system_metrics,   \* APITestingDashboard.system_metrics: the 'cpu' and
                     \* 'memory' series
    adder,   \* the thread in add_test_result: its position and locals
    collector,   \* the background_data_collector thread: its position
    inserted,   \* history: every result appended to test_results, in order
    samples,   \* how many data points the collector has taken
    _instance,   \* cls._instance: 0 for None, else the number of the object
    _lock,   \* cls._lock: 0 when free, else the thread that holds it
    _initialized,   \* whether the instance has the attribute _initialized
    constructors,   \* per thread calling the class: its position and the
                     \* instance __new__ returned to it
    objects,   \* how many objects super().__new__ has made
    init_runs   \* how many times the body of __init__ has run

load_vars ==
    <<config_file, environment, config_pc, config_log, loaded_data>>

check_vars == <<checked_response, assertion, first_outcome>>

thread_vars == <<threads>>

auth_test_vars == <<test_pc>>

retry_vars == <<decorated, retry_pc, _tries, invocations, test_outcome>>

logger_vars == <<current_context, performance_metrics, log_entries, blocks, uuids, last_exit>>

sanitize_vars == <<api_requests>>

dashboard_vars == <<test_results, system_metrics, adder, collector, inserted, samples>>

singleton_vars == <<_instance, _lock, _initialized, constructors, objects, init_runs>>

side_vars == <<thread_vars, auth_test_vars, retry_vars, logger_vars, sanitize_vars, dashboard_vars, singleton_vars>>

beside_thread_vars == <<auth_test_vars, retry_vars, logger_vars, sanitize_vars, dashboard_vars, singleton_vars>>

beside_auth_test_vars == <<thread_vars, retry_vars, logger_vars, sanitize_vars, dashboard_vars, singleton_vars>>

beside_retry_vars == <<thread_vars, auth_test_vars, logger_vars, sanitize_vars, dashboard_vars, singleton_vars>>

beside_logger_vars == <<thread_vars, auth_test_vars, retry_vars, sanitize_vars, dashboard_vars, singleton_vars>>

beside_sanitize_vars == <<thread_vars, auth_test_vars, retry_vars, logger_vars, dashboard_vars, singleton_vars>>

beside_dashboard_vars == <<thread_vars, auth_test_vars, retry_vars, logger_vars, sanitize_vars, singleton_vars>>

beside_singleton_vars == <<thread_vars, auth_test_vars, retry_vars, logger_vars, sanitize_vars, dashboard_vars>>

client_vars ==
    <<config_data, base_url, session_headers, session_auth, retry_total,
      last_response, response_time, timed_call, pc, call, log, ncalls,
      header_history>>

vars == <<config_data, base_url, session_headers, session_auth, retry_total,
          last_response, response_time, timed_call, pc, call, log, ncalls,
          header_history, load_vars, check_vars, side_vars>>

NoHistory == [op |-> "none", value |-> <<>>]

NoCall ==
    [id |-> 0, method |-> "None", endpoint |-> <<>>, url |-> <<>>,
     headers |-> <<>>, timeout |-> NoTimeout,
     sent_headers |-> <<>>, sent_timeout |-> 0,
     retries |-> 0, attempts |-> 0, outcomes |-> <<>>,
     transport_response |-> NoResponse, transport_exception |-> NoException,
     done |-> "none", returned |-> NoResponse, raised |-> NoException,
     elapsed |-> 0]

\* ------------------------------------------------------- pure operations
AuthHeaderValue_bearer_only(auth_type, token) == <<"Bearer", " ", token>>

\* f'{auth_type} {token}'
AuthHeaderValue(auth_type, token) == <<auth_type, " ", token>>

\* requests.auth._basic_auth_str(username, password)
_basic_auth_str(auth) == <<"Basic", " ", "b64", auth[1], ":", auth[2]>>

merge_setting_session_wins(request_headers, sess_headers) ==
    [n \in (DOMAIN sess_headers) \cup (DOMAIN request_headers) |->
        IF n \in DOMAIN sess_headers THEN sess_headers[n]
        ELSE request_headers[n]]

\* dict.update / requests.sessions.merge_setting(request_headers,
\* session.headers): the per-call value wins, other session keys are kept
merge_setting(request_headers, sess_headers) ==
    [n \in (DOMAIN sess_headers) \cup (DOMAIN request_headers) |->
        IF n \in DOMAIN request_headers THEN request_headers[n]
        ELSE sess_headers[n]]

\* Session.prepare_request -> PreparedRequest.prepare_auth: with session.auth
\* set, HTTPBasicAuth writes the Authorization header of the prepared request
prepare_auth(headers, auth) ==
    IF auth = <<>> THEN headers
    ELSE [n \in (DOMAIN headers) \cup {"Authorization"} |->
            IF n = "Authorization" THEN _basic_auth_str(auth) ELSE headers[n]]

\* timeout=timeout or config_instance.timeout
EffectiveTimeout(timeout, config_timeout) ==
    IF timeout # NoTimeout /\ timeout[1] # 0 THEN timeout[1] ELSE config_timeout

is_retry_client_errors(method, status) ==
    method \in allowed_methods /\ status >= 400

is_retry_any_method(method, status) == status \in status_forcelist

\* Retry.is_retry(method, status_code) without a Retry-After header
is_retry(method, status) ==
    method \in allowed_methods /\ status \in status_forcelist

is_exhausted_off_by_one(total) == total <= 0

\* Retry.is_exhausted() after Retry.increment() has taken one from total
is_exhausted(total) == total < 0

Reraise_wrapped(e) == [call |-> e.call, type |-> "APIError"]

\* except requests.exceptions.RequestException as e: ...; raise
Reraise(e) == e

\* ------------------------------------------------------------------- Init
\* the worker threads of PerformanceBenchmark.run_load_test
\* (concurrent_users = 2)
Workers == {1, 2}

IdleWorker ==
    [pc |-> "idle", id |-> 0, response |-> NoResponse,
     exception |-> NoException, logged_time |-> 0,
     read |-> [response |-> 0, time |-> 0]]

ThreadsAtRest ==
    threads = [t \in Workers |-> IdleWorker]

AuthTestAtRest ==
    test_pc = "not run"

\* a test function by what it does when invoked: it returns on the
\* invocation `succeeds_on` (0: never) and raises on every other one an
\* exception that derives from Exception (AssertionError, RequestException)
\* or from BaseException only (pytest.skip's Skipped, pytest.fail's Failed,
\* KeyboardInterrupt)
NoDecorated ==
    [retry_count |-> 0, func |-> [succeeds_on |-> 0, raises |-> "None"]]

\* the exception carries the number of the invocation that raised it
NoTestOutcome == [kind |-> "none", exception |-> 0, type |-> "None"]

RetryAtRest ==
    /\ decorated = NoDecorated
    /\ retry_pc = "undecorated"
    /\ _tries = 0
    /\ invocations = 0
    /\ test_outcome = NoTestOutcome

\* {}
EmptyDict == [k \in {} |-> <<>>]

\* an exception by its type, its str() and the block whose body raised it
NoRaised == [type |-> "None", text |-> <<>>, by |-> 0]

NoExit ==
    [correlation_id |-> 0, kind |-> "none", raised |-> NoRaised,
     out |-> NoRaised]

LoggerAtRest ==
    /\ current_context = EmptyDict
    /\ performance_metrics = <<>>
    /\ log_entries = <<>>
    /\ blocks = <<>>
    /\ uuids = 0
    /\ last_exit = NoExit

SanitizeAtRest ==
    api_requests = <<>>

IdleAdder == [pc |-> "idle", kept |-> <<>>]

DashboardAtRest ==
    /\ test_results = <<>>
    /\ system_metrics = [series \in {"cpu", "memory"} |-> <<>>]
    /\ adder = IdleAdder
    /\ collector = "sleep"
    /\ inserted = <<>>
    /\ samples = 0

\* the threads that call EnhancedLogger() (or PrometheusMetricsCollector())
Callers == {1, 2, 3}

NotCalling == [pc |-> "start", self |-> 0]

SingletonAtRest ==
    /\ _instance = 0
    /\ _lock = 0
    /\ _initialized = FALSE
    /\ constructors = [t \in Callers |-> NotCalling]
    /\ objects = 0
    /\ init_runs = 0

SideAtRest ==
    /\ SingletonAtRest
    /\ DashboardAtRest
    /\ SanitizeAtRest
    /\ LoggerAtRest
    /\ RetryAtRest
    /\ AuthTestAtRest
    /\ ThreadsAtRest

\* Config.__init__ and APIClient.__init__ / _create_session: the settings
\* come from the configuration file, the adapter's Retry takes retry_count
\* as it is at construction
ClientConstructed(base, cfg) ==
    /\ config_data = cfg
    /\ base_url = base
    /\ session_headers = DefaultHeaders
    /\ session_auth = <<>>
    /\ retry_total = cfg.retry_count
    /\ last_response = NoResponse
    /\ response_time = 0
    /\ timed_call = 0
    /\ pc = "idle"
    /\ call = NoCall
    /\ log = <<>>
    /\ ncalls = 0
    /\ header_history = [n \in HeaderNames |-> NoHistory]
    /\ config_file = ConfigFile("object", [e \in {"dev"} |-> cfg])
    /\ environment = "dev"
    /\ config_pc = "loaded"
    /\ config_log = <<>>
    /\ loaded_data = cfg
    /\ SideAtRest

\* ... and no response has been handed to the assertion layer
ConstructedWith(base, cfg) ==
    /\ ClientConstructed(base, cfg)
    /\ checked_response = NoCheckedResponse
    /\ assertion = NoAssertion
    /\ first_outcome = [e \in ExpectedStatuses |-> NoOutcome]

Configs == [timeout : ConfigTimeouts, retry_count : 0..MaxRetry]

Init ==
    \E cfg \in Configs : ConstructedWith(HTTPS \o <<"h">>, cfg)

\* ---------------------------------------------------------------- actions
LogLine(level, event, exc) == [level |-> level, event |-> event, exc |-> exc]

\* APIClient.request, up to the call of session.request: build the URL, log
\* the request, start the timer; session.request merges the headers, applies
\* session.auth and hands the first attempt to the adapter
RequestBegin(method, endpoint, headers, timeout) ==
    /\ pc = "idle"
    /\ ncalls < MaxCalls
    /\ ncalls' = ncalls + 1
    /\ call' = [NoCall EXCEPT
            !.id = ncalls + 1,
            !.method = method,
            !.endpoint = endpoint,
            !.url = _build_url(base_url, endpoint),
            !.headers = headers,
            !.timeout = timeout,
            !.sent_headers =
                prepare_auth(merge_setting(headers, session_headers),
                             session_auth),
            !.sent_timeout = EffectiveTimeout(timeout, config_data.timeout),
            !.retries = retry_total]
    /\ log' = <<LogLine("INFO", "request", NoException),
                LogLine("DEBUG", "headers", NoException)>>
    /\ pc' = "sending"
    /\ UNCHANGED <<side_vars, load_vars, check_vars,
                   config_data, base_url, session_headers, session_auth,
                   retry_total, last_response, response_time, timed_call,
                   header_history>>

\* one attempt of the adapter (HTTPConnectionPool.urlopen with the mounted
\* Retry): the target answers `outcome`; a connection failure or a status
\* that is_retry accepts takes one from Retry.total and is re-issued unless
\* the Retry is exhausted, in which case the adapter raises ConnectionError
\* or RetryError (raise_on_status is left at its default)
Attempt(outcome) ==
    /\ pc = "sending"
    /\ LET sent == [call EXCEPT !.attempts = @ + 1,
                                !.outcomes = Append(@, outcome)]
           retried == outcome = CONNFAIL \/ is_retry(call.method, outcome)
       IN IF retried
          THEN IF is_exhausted(call.retries - 1)
               THEN /\ call' = [sent EXCEPT !.transport_exception =
                          [call |-> call.id,
                           type |-> IF outcome = CONNFAIL
                                    THEN "ConnectionError" ELSE "RetryError"]]
                    /\ pc' = "fail"
               ELSE /\ call' = [sent EXCEPT !.retries = @ - 1]
                    /\ pc' = "sending"
          ELSE /\ call' = [sent EXCEPT !.transport_response =
                     [call |-> call.id, status |-> outcome]]
               /\ pc' = "respond"
    /\ UNCHANGED <<side_vars, load_vars, check_vars,
                   config_data, base_url, session_headers, session_auth,
                   retry_total, last_response, response_time, timed_call,
                   log, ncalls, header_history>>

StoreLastResponse_first_wins(response, previous) ==
    IF previous = NoResponse THEN response ELSE previous

\* self.last_response = response
StoreLastResponse(response, previous) == response

\* APIClient.request after session.request has returned a response
ReturnStep(elapsed) ==
    /\ pc = "respond"
    /\ response_time' = elapsed
    /\ timed_call' = call.id
    /\ last_response' = StoreLastResponse(call.transport_response, last_response)
    /\ log' = log \o <<LogLine("INFO", "response", NoException),
                       LogLine("DEBUG", "body", NoException)>>
    /\ call' = [call EXCEPT !.done = "returned",
                            !.returned = call.transport_response,
                            !.elapsed = elapsed]
    /\ pc' = "idle"
    /\ UNCHANGED <<side_vars, load_vars, check_vars,
                   config_data, base_url, session_headers, session_auth,
                   retry_total, ncalls, header_history>>

RaiseStep_drops_response(elapsed) ==
    /\ pc = "fail"
    /\ response_time' = elapsed
    /\ timed_call' = call.id
    /\ last_response' = NoResponse
    /\ log' = Append(log, LogLine("ERROR", "Request failed",
                                  call.transport_exception))
    /\ call' = [call EXCEPT !.done = "raised",
                            !.raised = Reraise(call.transport_exception),
                            !.elapsed = elapsed]
    /\ pc' = "idle"
    /\ UNCHANGED <<side_vars, load_vars, check_vars,
                   config_data, base_url, session_headers, session_auth,
                   retry_total, ncalls, header_history>>

\* APIClient.request when session.request raised a RequestException
RaiseStep(elapsed) ==
    /\ pc = "fail"
    /\ response_time' = elapsed
    /\ timed_call' = call.id
    /\ log' = Append(log, LogLine("ERROR", "Request failed",
                                  call.transport_exception))
    /\ call' = [call EXCEPT !.done = "raised",
                            !.raised = Reraise(call.transport_exception),
                            !.elapsed = elapsed]
    /\ pc' = "idle"
    /\ UNCHANGED <<side_vars, load_vars, check_vars,
                   config_data, base_url, session_headers, session_auth,
                   retry_total, last_response, ncalls, header_history>>

\* APIClient.set_auth_token
set_auth_token(token, auth_type) ==
    /\ pc = "idle"
    /\ session_headers' =
          [n \in (DOMAIN session_headers) \cup {"Authorization"} |->
              IF n = "Authorization" THEN AuthHeaderValue(auth_type, token)
              ELSE session_headers[n]]
    /\ UNCHANGED <<side_vars, load_vars, check_vars,
                   config_data, base_url, session_auth, retry_total,
                   last_response, response_time, timed_call, pc, call, log,
                   ncalls>>
    /\ header_history' = [header_history EXCEPT !["Authorization"] =
            [op |-> "set", value |-> <<auth_type, " ", token>>]]

\* APIClient.set_basic_auth
set_basic_auth(username, password) ==
    /\ pc = "idle"
    /\ session_auth' = <<username, password>>
    /\ UNCHANGED <<side_vars, load_vars, check_vars,
                   config_data, base_url, session_headers, retry_total,
                   last_response, response_time, timed_call, pc, call, log,
                   ncalls, header_history>>

\* APIClient.add_header
add_header(key, value) ==
    /\ pc = "idle"
    /\ session_headers' =
          [n \in (DOMAIN session_headers) \cup {key} |->
              IF n = key THEN value ELSE session_headers[n]]
    /\ UNCHANGED <<side_vars, load_vars, check_vars,
                   config_data, base_url, session_auth, retry_total,
                   last_response, response_time, timed_call, pc, call, log,
                   ncalls>>
    /\ header_history' = [header_history EXCEPT ![key] =
            [op |-> "set", value |-> value]]

\* APIClient.remove_header
remove_header(key) ==
    /\ pc = "idle"
    /\ session_headers' =
          IF key \in DOMAIN session_headers
          THEN [n \in (DOMAIN session_headers) \ {key} |-> session_headers[n]]
          ELSE session_headers
    /\ UNCHANGED <<side_vars, load_vars, check_vars,
                   config_data, base_url, session_auth, retry_total,
                   last_response, response_time, timed_call, pc, call, log,
                   ncalls>>
    /\ header_history' = [header_history EXCEPT ![key] =
            [op |-> "removed", value |-> <<>>]]

\* Config.update (its info line is not kept: config_log holds the lines of
\* _load_config)
ConfigUpdate(key, value) ==
    /\ pc = "idle"
    /\ config_pc = "loaded"
    /\ config_data' = [k \in (DOMAIN config_data) \cup {key} |->
                          IF k = key THEN value ELSE config_data[k]]
    /\ UNCHANGED <<side_vars, load_vars, check_vars,
                   base_url, session_headers, session_auth, retry_total,
                   last_response, response_time, timed_call, pc, call, log,
                   ncalls, header_history>>

RequestOf(methods, endpoints, headers, timeouts) ==
    \E m \in methods, e \in endpoints, h \in headers, t \in timeouts :
        RequestBegin(m, e, h, t)

TransportOf(outcomes) == \E o \in outcomes : Attempt(o)

RequestReturn == \E e \in ElapsedTimes : ReturnStep(e)

RequestRaise == \E e \in ElapsedTimes : RaiseStep(e)

SetAuthToken == \E t \in Tokens, a \in AuthTypes : set_auth_token(t, a)

SetBasicAuth == set_basic_auth("user", "pw")

AddHeader == \E k \in HeaderNames, v \in HeaderValues : add_header(k, v)

RemoveHeader == \E k \in HeaderNames : remove_header(k)

UpdateTimeout == \E v \in ConfigTimeouts : ConfigUpdate("timeout", v)

UpdateRetryCount == \E v \in 0..MaxRetry : ConfigUpdate("retry_count", v)

\* The request pipeline: every method, timeout argument and target answer,
\* with the configuration changing between calls.
Request == RequestOf(Methods, CallEndpoints, {<<>>}, TimeoutArgs)

Transport == TransportOf(Outcomes)

Next ==
    \/ Request
    \/ Transport
    \/ RequestReturn
    \/ RequestRaise
    \/ UpdateTimeout
    \/ UpdateRetryCount

Spec == Init /\ [][Next]_vars

\* The header operations: calls with per-call headers against a target that
\* answers 200 or refuses the connection, between operations on the
\* session's default headers and credentials.
HeaderRequest == RequestOf({"GET"}, CallEndpoints, PerCallHeaders, {NoTimeout})

HeaderTransport == TransportOf({CONNFAIL, 200})

HeaderReturn == ReturnStep(1)

HeaderRaise == RaiseStep(1)

InitHeaders ==
    ConstructedWith(HTTPS \o <<"h">>, [timeout |-> 30, retry_count |-> 1])

NextHeaders ==
    \/ HeaderRequest
    \/ HeaderTransport
    \/ HeaderReturn
    \/ HeaderRaise
    \/ SetAuthToken
    \/ SetBasicAuth
    \/ AddHeader
    \/ RemoveHeader

SpecHeaders == InitHeaders /\ [][NextHeaders]_vars

\* The URL builder: every base URL of BaseUrls and every endpoint of
\* Endpoints, as the first step of a GET.
RECURSIVE SeqsUpTo(_, _)
SeqsUpTo(alphabet, n) ==
    IF n = 0 THEN {<<>>}
    ELSE LET shorter == SeqsUpTo(alphabet, n - 1)
         IN shorter \cup {Append(s, c) : s \in shorter, c \in alphabet}

EndpointAlphabet == {"/", ".", "a"}

Endpoints ==
    {p \o s : p \in {<<>>, HTTP, HTTPS},
              s \in SeqsUpTo(EndpointAlphabet, MaxEndpointLen)}

BaseUrls ==
    {HTTPS \o <<"h">>, HTTPS \o <<"h", "/">>,
     HTTP \o <<"h", "/", "v">>, HTTPS \o <<"h", "/", "v", "/", "/">>}

InitUrl ==
    \E b \in BaseUrls :
        ConstructedWith(b, [timeout |-> 30, retry_count |-> 0])

UrlRequest == RequestOf({"GET"}, Endpoints, {<<>>}, {NoTimeout})

NextUrl == UrlRequest

SpecUrl == InitUrl /\ [][NextUrl]_vars

\* ------------------------------------------------- configuration loading
\* import of config.config with the file and the environment name as they
\* are: no Config, no client yet
BeforeImport(file, env) ==
    /\ config_file = file
    /\ environment = env
    /\ config_pc = "unloaded"
    /\ config_log = <<>>
    /\ loaded_data = <<>>
    /\ config_data = <<>>
    /\ base_url = <<>>
    /\ session_headers = <<>>
    /\ session_auth = <<>>
    /\ retry_total = 0
    /\ last_response = NoResponse
    /\ response_time = 0
    /\ timed_call = 0
    /\ pc = "idle"
    /\ call = NoCall
    /\ log = <<>>
    /\ ncalls = 0
    /\ header_history = [n \in HeaderNames |-> NoHistory]
    /\ SideAtRest
    /\ checked_response = NoCheckedResponse
    /\ assertion = NoAssertion
    /\ first_outcome = [e \in ExpectedStatuses |-> NoOutcome]

\* Config.__init__: config_data = self._load_config()
Config_init ==
    /\ config_pc = "unloaded"
    /\ LET loaded == _load_config(config_file, environment)
       IN /\ config_pc' = IF loaded.raised = "None" THEN "loaded"
                          ELSE "raised"
          /\ config_data' = loaded.data
          /\ loaded_data' = loaded.data
          /\ config_log' = loaded.log
    /\ UNCHANGED <<side_vars, check_vars, config_file, environment,
                   base_url, session_headers, session_auth, retry_total,
                   last_response, response_time, timed_call, pc, call, log,
                   ncalls, header_history>>

\* requests.utils.default_headers() restricted to HeaderNames
SessionDefaults == [n \in {"Accept"} |-> <<"*", "/", "*">>]

\* session.headers.update(self.default_headers), restricted to HeaderNames
SessionHeadersOf(default_headers) ==
    [n \in (DOMAIN SessionDefaults)
            \cup ((DOMAIN default_headers) \cap HeaderNames) |->
        IF n \in DOMAIN default_headers THEN default_headers[n]
        ELSE SessionDefaults[n]]

\* the base_url arguments of APIClient(): None, or a URL
NoBaseUrl == <<>>
BaseUrlArgs == {NoBaseUrl, HTTPS \o <<"x">>}

\* APIClient.__init__ and _create_session: base_url, the default headers
\* and the Retry's total are taken from the configuration as it is now
APIClient_init(base) ==
    /\ config_pc = "loaded"
    /\ pc = "idle"
    /\ base_url' = IF base # NoBaseUrl THEN base
                   ELSE Config_base_url(config_data)
    /\ session_headers' = SessionHeadersOf(Config_headers(config_data))
    /\ session_auth' = <<>>
    /\ retry_total' = Config_retry_count(config_data)
    /\ last_response' = NoResponse
    /\ response_time' = 0
    /\ timed_call' = 0
    /\ call' = NoCall
    /\ log' = <<>>
    /\ ncalls' = 0
    /\ header_history' = [n \in HeaderNames |-> NoHistory]
    /\ UNCHANGED <<side_vars, load_vars, check_vars, config_data, pc>>

\* the values Config.update is called with
UpdateNumbers == {0 - 1, 7}
UpdateBaseUrls == {HTTPS \o <<"u">>, HTTPS \o <<"u", "/">>}

UpdateSetting ==
    \/ \E key \in {"timeout", "retry_count", "retry_delay"},
          v \in UpdateNumbers : ConfigUpdate(key, v)
    \/ \E b \in UpdateBaseUrls : ConfigUpdate("base_url", b)

NewClient == \E base \in BaseUrlArgs : APIClient_init(base)

InitConfig ==
    \E file \in ConfigFiles, env \in EnvNames : BeforeImport(file, env)

NextConfig ==
    \/ Config_init
    \/ UpdateSetting
    \/ NewClient

SpecConfig == InitConfig /\ [][NextConfig]_vars

\* ------------------------------------------------------ assertion layer
\* a log line: its level and the values its text or context carries
Line(level, carries) == [level |-> level, carries |-> carries]

Message(template, args) == [template |-> template, args |-> args]

\* the message arguments of the checks: None, or the caller's text
CustomMessage == Message("custom", <<>>)
MessageArgs == {NoMessage, CustomMessage}

\* message or f"..."
MessageOr(message, default) == IF message # NoMessage THEN message ELSE default

\* APIAssertions.assert_status_code: an info line, then the assert
\* statement, whose built-in AssertionError has a message and nothing else
assert_status_code(resp, expected_code, message) ==
    LET actual_code == resp.status_code
        assertion_msg ==
            MessageOr(message, Message("Expected status code {}, got {}",
                                       <<expected_code, actual_code>>))
        asserting == Line("INFO", {"expected"})
    IN IF actual_code = expected_code
       THEN CheckResult("passed", NoMessage, FALSE, <<>>,
                        <<asserting, Line("INFO", {"actual"})>>)
       ELSE CheckResult("AssertionError", assertion_msg, FALSE, <<>>,
                        <<asserting>>)

\* AdvancedAPIAssertions.assert_status_code: on a mismatch the context is
\* built, logged at error level and handed to the module's own
\* AssertionError (method and response_text of the context are left out)
advanced_assert_status_code(resp, expected_code, message) ==
    LET actual_code == resp.status_code
        context == [expected_status |-> expected_code,
                    actual_status |-> actual_code,
                    url |-> resp.url]
        error_msg ==
            MessageOr(message, Message("Expected status code {}, got {}",
                                       <<expected_code, actual_code>>))
    IN IF actual_code # expected_code
       THEN CheckResult("AssertionError", error_msg, TRUE, context,
                        <<Line("ERROR", {"expected", "actual", "url"})>>)
       ELSE CheckResult("passed", NoMessage, FALSE, <<>>,
                        <<Line("INFO", {"actual"})>>)

\* json.dumps of the request's json_data followed by json() of the echoed
\* body: a tuple comes back as a list
RECURSIVE json_roundtrip_ints_as_str(_)
json_roundtrip_ints_as_str(value) ==
    CASE value.type \in {"list", "tuple"} ->
            JList([i \in DOMAIN value.items |->
                      json_roundtrip_ints_as_str(value.items[i])])
      [] value.type = "dict" ->
            JObj([k \in DOMAIN value.fields |->
                     json_roundtrip_ints_as_str(value.fields[k])])
      [] value.type = "int" -> JStr(<<"n">>)
      [] OTHER -> value

RECURSIVE json_roundtrip(_)
json_roundtrip(value) ==
    CASE value.type \in {"list", "tuple"} ->
            JList([i \in DOMAIN value.items |->
                      json_roundtrip(value.items[i])])
      [] value.type = "dict" ->
            JObj([k \in DOMAIN value.fields |->
                     json_roundtrip(value.fields[k])])
      [] OTHER -> value

\* the characters of an unquoted JMESPath identifier that key names use here
IdentifierChars == {"a", "b", "c"}

\* jmespath's Parser.parse: the exception the expression ends in, or "None".
\* The lexer runs first: an empty expression, then a character that starts
\* no token ('-' not followed by a digit); the parser then wants an
\* identifier on both sides of every '.'
jmespath_compile(expression) ==
    IF expression = <<>> THEN "EmptyExpressionError"
    ELSE IF \E i \in 1..Len(expression) :
                expression[i] \notin IdentifierChars \cup {"."}
    THEN "LexerError"
    ELSE IF LET parts == Split(expression, ".")
            IN \E i \in 1..Len(parts) : parts[i] = <<>>
    THEN "ParseError"
    ELSE "None"

\* identifier and sub-expression: the field of a dict, None for anything else
RECURSIVE Subexpression(_, _)
Subexpression(value, parts) ==
    IF parts = <<>> THEN value
    ELSE IF value.type = "dict" /\ parts[1] \in DOMAIN value.fields
    THEN Subexpression(value.fields[parts[1]], Tail(parts))
    ELSE JNull

\* jmespath.search(expression, data)
jmespath_search(expression, data) ==
    LET error == jmespath_compile(expression)
    IN [error |-> error,
        value |-> IF error = "None"
                  THEN Subexpression(data, Split(expression, "."))
                  ELSE JNull]

\* a schema as the tests write it: "type", "required" and the "type" of
\* some "properties"
Schema(type, required, properties) ==
    [type |-> type, required |-> required, properties |-> properties]

\* a jsonschema ValidationError: the keyword that failed and what its
\* message names (e.message is "'a' is a required property" for a missing
\* field a)
ValidationError(validator, subject) ==
    [validator |-> validator, subject |-> subject]

NoValidationError == ValidationError("None", <<>>)

\* the Python type of a value under the JSON Schema type names
SchemaTypeOf(value) ==
    CASE value.type = "dict" -> "object"
      [] value.type = "list" -> "array"
      [] value.type = "int" -> "integer"
      [] value.type = "str" -> "string"
      [] OTHER -> "null"

\* the first required field the instance lacks, in the order of "required"
RECURSIVE FirstMissing(_, _)
FirstMissing(required, fields) ==
    IF required = <<>> THEN <<>>
    ELSE IF required[1] \notin DOMAIN fields THEN <<required[1]>>
    ELSE FirstMissing(Tail(required), fields)

validate_without_required(instance, schema) ==
    IF schema.type = "object" /\ instance.type # "dict"
    THEN ValidationError("type", <<>>)
    ELSE IF instance.type = "dict"
            /\ \E k \in (DOMAIN schema.properties) \cap (DOMAIN instance.fields) :
                  SchemaTypeOf(instance.fields[k]) # schema.properties[k]
    THEN ValidationError("type",
            CHOOSE k \in (DOMAIN schema.properties) \cap (DOMAIN instance.fields) :
                SchemaTypeOf(instance.fields[k]) # schema.properties[k])
    ELSE NoValidationError

\* jsonschema.validate(instance, schema): the error best_match raises, the
\* first of the errors nearest the root.  "required" and "properties" look
\* at objects only.
validate(instance, schema) ==
    IF schema.type = "object" /\ instance.type # "dict"
    THEN ValidationError("type", <<>>)
    ELSE IF instance.type = "dict"
            /\ FirstMissing(schema.required, instance.fields) # <<>>
    THEN ValidationError("required",
                         FirstMissing(schema.required, instance.fields)[1])
    ELSE IF instance.type = "dict"
            /\ \E k \in (DOMAIN schema.properties) \cap (DOMAIN instance.fields) :
                  SchemaTypeOf(instance.fields[k]) # schema.properties[k]
    THEN ValidationError("type",
            CHOOSE k \in (DOMAIN schema.properties) \cap (DOMAIN instance.fields) :
                SchemaTypeOf(instance.fields[k]) # schema.properties[k])
    ELSE NoValidationError

\* except json.JSONDecodeError: an error line, then AssertionError (the
\* JSONDecodeError that response.json() raises is a json.JSONDecodeError, as
\* in requests 2.27 and later without simplejson)
NotValidJson(message) ==
    CheckResult("AssertionError",
                MessageOr(message, Message("Response is not valid JSON", <<>>)),
                FALSE, <<>>, <<Line("ERROR", {})>>)

\* an exception of jmespath.search, which no except clause catches
Uncaught(error, lines) == CheckResult(error, NoMessage, FALSE, <<>>, lines)

\* APIAssertions.assert_json_schema
assert_json_schema(resp, schema, message) ==
    IF ~resp.is_json THEN NotValidJson(message)
    ELSE LET e == validate(resp.body, schema)
         IN IF e = NoValidationError
            THEN CheckResult("passed", NoMessage, FALSE, <<>>,
                             <<Line("INFO", {}), Line("INFO", {})>>)
            ELSE CheckResult("AssertionError",
                    MessageOr(message,
                              Message("Schema validation failed: {e.message}",
                                      <<e.validator, e.subject>>)),
                    FALSE, <<>>,
                    <<Line("INFO", {}), Line("ERROR", {"e.message"})>>)

\* APIAssertions.assert_json_key_exists
assert_json_key_exists(resp, key_path, message) ==
    IF ~resp.is_json THEN NotValidJson(message)
    ELSE LET found == jmespath_search(key_path, resp.body)
         IN IF found.error # "None" THEN Uncaught(found.error, <<>>)
            ELSE IF found.value # JNull
            THEN CheckResult("passed", NoMessage, FALSE, <<>>,
                             <<Line("INFO", {"key_path"}),
                               Line("INFO", {"key_path"})>>)
            ELSE CheckResult("AssertionError",
                    MessageOr(message,
                              Message("Key '{}' not found in response",
                                      <<key_path>>)),
                    FALSE, <<>>, <<Line("INFO", {"key_path"})>>)

\* APIAssertions.assert_json_key_value
assert_json_key_value(resp, key_path, expected_value, message) ==
    IF ~resp.is_json THEN NotValidJson(message)
    ELSE LET found == jmespath_search(key_path, resp.body)
         IN IF found.error # "None" THEN Uncaught(found.error, <<>>)
            ELSE IF found.value = expected_value
            THEN CheckResult("passed", NoMessage, FALSE, <<>>,
                             <<Line("INFO", {"key_path", "expected"}),
                               Line("INFO", {"key_path", "actual"})>>)
            ELSE CheckResult("AssertionError",
                    MessageOr(message,
                              Message("Expected '{}' = {}, got {}",
                                      <<key_path, expected_value,
                                        found.value>>)),
                    FALSE, <<>>,
                    <<Line("INFO", {"key_path", "expected"})>>)

\* APIAssertions.assert_json_array_length
assert_json_array_length(resp, key_path, expected_length, message) ==
    IF ~resp.is_json THEN NotValidJson(message)
    ELSE LET found == jmespath_search(key_path, resp.body)
         IN IF found.error # "None" THEN Uncaught(found.error, <<>>)
            ELSE IF found.value = JNull
            THEN CheckResult("AssertionError",
                    Message("Array not found at path: {}", <<key_path>>),
                    FALSE, <<>>, <<Line("ERROR", {"key_path"})>>)
            ELSE IF found.value.type # "list"
            THEN CheckResult("AssertionError",
                    Message("Data at path '{}' is not an array",
                            <<key_path>>),
                    FALSE, <<>>, <<Line("ERROR", {"key_path"})>>)
            ELSE IF Len(found.value.items) = expected_length
            THEN CheckResult("passed", NoMessage, FALSE, <<>>,
                             <<Line("INFO", {"expected"}),
                               Line("INFO", {"actual"})>>)
            ELSE CheckResult("AssertionError",
                    MessageOr(message,
                              Message("Expected array length {}, got {}",
                                      <<expected_length,
                                        Len(found.value.items)>>)),
                    FALSE, <<>>, <<Line("INFO", {"expected"})>>)

\* APIAssertions.assert_json_types with a type_mapping of one entry
assert_json_types(resp, key_path, expected_type, message) ==
    IF ~resp.is_json THEN NotValidJson(message)
    ELSE LET found == jmespath_search(key_path, resp.body)
         IN IF found.error # "None" THEN Uncaught(found.error, <<>>)
            ELSE IF found.value = JNull
            THEN CheckResult("AssertionError",
                    Message("Key '{}' not found in response", <<key_path>>),
                    FALSE, <<>>, <<Line("ERROR", {"key_path"})>>)
            ELSE IF found.value.type # expected_type
            THEN CheckResult("AssertionError",
                    MessageOr(message,
                              Message("Expected '{}' to be {}, got {}",
                                      <<key_path, expected_type,
                                        found.value.type>>)),
                    FALSE, <<>>, <<Line("ERROR", {"key_path"})>>)
            ELSE CheckResult("passed", NoMessage, FALSE, <<>>,
                             <<Line("INFO", {"key_path"})>>)

ResponseAfterCheck_consumed(resp) == [resp EXCEPT !.status_code = 0]

\* the response after a check has run on it: the checks read status_code,
\* url and json() and assign nothing
ResponseAfterCheck(resp) == resp

\* a check of the assertion layer runs on the response: what it logged and
\* how it ended is kept as the last call
Check(layer, check, args, result) ==
    /\ checked_response # NoCheckedResponse
    /\ assertion' = [layer |-> layer, check |-> check, args |-> args,
                     result |-> result]
    /\ checked_response' = ResponseAfterCheck(checked_response)
    /\ UNCHANGED <<side_vars, load_vars, config_data, base_url, session_headers,
                   session_auth, retry_total, last_response, response_time,
                   timed_call, pc, call, log, ncalls, header_history>>

\* api_assert.assert_status_code(response, expected_code, message)
AssertStatusCode(expected_code, message) ==
    LET result == assert_status_code(checked_response, expected_code,
                                     message)
    IN /\ Check("APIAssertions", "assert_status_code",
                [expected_code |-> expected_code, message |-> message],
                result)
       /\ first_outcome' = [first_outcome EXCEPT ![expected_code] =
            [outcome |-> IF @.calls = 0 THEN result.outcome ELSE @.outcome,
             calls |-> IF @.calls < MaxRepeats THEN @.calls + 1 ELSE @.calls]]

\* AdvancedAPIAssertions.assert_status_code(response, expected_code, message)
AdvancedAssertStatusCode(expected_code, message) ==
    /\ Check("AdvancedAPIAssertions", "assert_status_code",
             [expected_code |-> expected_code, message |-> message],
             advanced_assert_status_code(checked_response, expected_code,
                                         message))
    /\ UNCHANGED first_outcome

\* ================================================================ claims
\* the last call has run to its end: request returned or raised
CallFinished == pc = "idle" /\ call.done # "none"

LastOutcome == call.outcomes[Len(call.outcomes)]

All503 ==
    /\ call.outcomes # <<>>
    /\ \A i \in 1..Len(call.outcomes) : call.outcomes[i] = 503

\* C1 as stated: whatever the method, a call whose every attempt is
\* answered 503 issues exactly retry_count + 1 attempts (retry_count as
\* configured when the session was built) and then fails.
C1_AnyMethod ==
    (CallFinished /\ All503) =>
        /\ call.attempts = retry_total + 1
        /\ call.done = "raised"

\* C1 amended: with a method of allowed_methods the call issues exactly
\* retry_count + 1 attempts and raises RetryError; with PATCH, which the
\* Retry does not cover, it issues one attempt and returns the 503 response.
C1_RetryableMethod ==
    (CallFinished /\ All503) =>
        IF call.method \in {"HEAD", "GET", "PUT", "DELETE", "OPTIONS",
                            "TRACE", "POST"}
        THEN /\ call.attempts = retry_total + 1
             /\ call.done = "raised"
             /\ call.raised.type = "RetryError"
        ELSE /\ call.attempts = 1
             /\ call.done = "returned"
             /\ call.returned.status = 503

C1_Witness ==
    /\ CallFinished /\ All503
    /\ call.method = "POST"
    /\ retry_total >= 1
    /\ call.attempts = retry_total + 1
    /\ call.done = "raised"

HasScheme(endpoint) ==
    StartsWith(endpoint, HTTP) \/ StartsWith(endpoint, HTTPS)

\* C4: an endpoint that begins with 'http://' or 'https://' is the URL of
\* the request, unchanged, whatever base_url is.
C4_AbsoluteEndpointVerbatim ==
    (pc = "sending" /\ HasScheme(call.endpoint)) => call.url = call.endpoint

C4_Witness ==
    /\ pc = "sending"
    /\ base_url = HTTPS \o <<"h", "/", "v", "/", "/">>
    /\ call.endpoint = HTTP \o <<"a", "/", ".", ".">>
    /\ call.url = call.endpoint

\* base_url, one '/', the endpoint without its leading slashes
Concatenated(base, endpoint) ==
    RStrip(base, "/") \o <<"/">> \o LStrip(endpoint, "/")

\* C5 as stated: for every endpoint without a scheme the URL is base_url
\* (without trailing slashes), exactly one '/', and the endpoint without its
\* leading slashes.
C5_JoinIsConcatenation ==
    (pc = "sending" /\ ~HasScheme(call.endpoint)) =>
        call.url = Concatenated(base_url, call.endpoint)

\* the endpoint, after its leading slashes, is made of plain segments: none
\* is '.' or '..', and none but the last is empty
PlainSegments(endpoint) ==
    LET segs == Split(LStrip(endpoint, "/"), "/")
    IN \A i \in 1..Len(segs) :
          /\ segs[i] \notin {<<".">>, <<".", ".">>}
          /\ i < Len(segs) => segs[i] # <<>>

\* C5 amended: the URL is that concatenation for every endpoint without a
\* scheme whose segments are plain; in the other endpoints urljoin resolves
\* the '.' and '..' segments and drops the empty ones.
C5_PlainJoinIsConcatenation ==
    (pc = "sending" /\ ~HasScheme(call.endpoint)
        /\ PlainSegments(call.endpoint)) =>
        call.url = Concatenated(base_url, call.endpoint)

C5_Witness ==
    /\ pc = "sending"
    /\ base_url = HTTPS \o <<"h", "/", "v", "/", "/">>
    /\ call.endpoint = <<"/", "/", "a", "/">>
    /\ call.url = HTTPS \o <<"h", "/", "v", "/", "a", "/">>

\* C6 as stated: a call is sent with, for every header name, the value that
\* the last set_auth_token / add_header gave it, and without the header when
\* the last operation on it was remove_header.
C6_DefaultsAlwaysSent ==
    pc = "sending" =>
        \A k \in HeaderNames :
            /\ header_history[k].op = "set" =>
                  /\ k \in DOMAIN call.sent_headers
                  /\ call.sent_headers[k] = header_history[k].value
            /\ header_history[k].op = "removed" =>
                  k \notin DOMAIN call.sent_headers

\* C6 amended: that holds for every header name the call passes no per-call
\* value for, and for Authorization only while no basic-auth credentials
\* are set on the session.
C6_DefaultsSentUnlessOverridden ==
    pc = "sending" =>
        \A k \in HeaderNames :
            (/\ k \notin DOMAIN call.headers
             /\ (k = "Authorization" => session_auth = <<>>)) =>
                /\ header_history[k].op = "set" =>
                      /\ k \in DOMAIN call.sent_headers
                      /\ call.sent_headers[k] = header_history[k].value
                /\ header_history[k].op = "removed" =>
                      k \notin DOMAIN call.sent_headers

C6_Witness ==
    /\ pc = "sending"
    /\ call.id = 2
    /\ header_history["Authorization"].op = "set"
    /\ "Authorization" \in DOMAIN call.sent_headers
    /\ call.sent_headers["Authorization"] = <<"Token", " ", "xyz">>
    /\ header_history["Accept"].op = "removed"
    /\ "Accept" \notin DOMAIN call.sent_headers

\* a step of a call (from its start to its return or raise) leaves the
\* session's default headers as they are
CallKeepsDefaults ==
    [][(pc # "idle" \/ pc' # "idle") => session_headers' = session_headers]_vars

\* C7 as stated: every per-call header is sent with its per-call value,
\* every other session default with its session value, and the call leaves
\* the session defaults unchanged.
C7_PerCallOverDefaults ==
    /\ [](pc = "sending" =>
            /\ \A k \in DOMAIN call.headers :
                  /\ k \in DOMAIN call.sent_headers
                  /\ call.sent_headers[k] = call.headers[k]
            /\ \A k \in (DOMAIN session_headers) \ (DOMAIN call.headers) :
                  /\ k \in DOMAIN call.sent_headers
                  /\ call.sent_headers[k] = session_headers[k])
    /\ CallKeepsDefaults

\* C7 amended: the same for every header name, except that Authorization is
\* sent with the basic-auth credentials once set_basic_auth has set them.
C7_PerCallOverDefaultsButBasicAuth ==
    /\ [](pc = "sending" =>
            /\ \A k \in DOMAIN call.headers :
                  (k = "Authorization" => session_auth = <<>>) =>
                      /\ k \in DOMAIN call.sent_headers
                      /\ call.sent_headers[k] = call.headers[k]
            /\ \A k \in (DOMAIN session_headers) \ (DOMAIN call.headers) :
                  (k = "Authorization" => session_auth = <<>>) =>
                      /\ k \in DOMAIN call.sent_headers
                      /\ call.sent_headers[k] = session_headers[k]
            /\ session_auth # <<>> =>
                  call.sent_headers["Authorization"] =
                      <<"Basic", " ", "b64", session_auth[1], ":",
                        session_auth[2]>>)
    /\ CallKeepsDefaults

C7_Witness ==
    /\ pc = "sending"
    /\ DOMAIN call.headers = {"Accept"}
    /\ call.headers["Accept"] = <<"v2">>
    /\ DOMAIN session_headers = {"Accept", "Authorization"}
    /\ session_headers["Accept"] = <<"v1">>
    /\ call.sent_headers["Accept"] = <<"v2">>
    /\ call.sent_headers["Authorization"] = session_headers["Authorization"]

\* C8: the transport gets the timeout argument whenever one is given, 0
\* included, and the configuration's timeout only when none is given.
C8_GivenTimeoutApplied ==
    pc = "sending" =>
        call.sent_timeout =
            IF call.timeout # NoTimeout THEN call.timeout[1]
            ELSE config_data.timeout

\* C9 as stated: after a call that returned r the client holds r and the
\* elapsed time of that call, and once the client holds a response,
\* last_response and response_time come from one and the same call after
\* every finished call.
C9_PairOfOneCall ==
    /\ (CallFinished /\ call.done = "returned") =>
          /\ last_response = call.returned
          /\ call.returned = [call |-> call.id, status |-> LastOutcome]
          /\ response_time = call.elapsed
          /\ timed_call = call.id
    /\ (CallFinished /\ last_response # NoResponse) =>
          last_response.call = timed_call

\* C9 amended: after a call that returned r the client holds r and the
\* elapsed time of that call; a call that raised has overwritten
\* response_time only, so last_response is still the response of an earlier
\* call (or none).
C9_PairAfterReturn ==
    /\ (CallFinished /\ call.done = "returned") =>
          /\ last_response = call.returned
          /\ call.returned = [call |-> call.id, status |-> LastOutcome]
          /\ response_time = call.elapsed
          /\ timed_call = call.id
    /\ (CallFinished /\ call.done = "raised") =>
          /\ response_time = call.elapsed
          /\ timed_call = call.id
          /\ last_response.call < call.id

C9_Witness ==
    /\ CallFinished
    /\ call.id = 2
    /\ call.done = "returned"
    /\ last_response = [call |-> 2, status |-> 404]
    /\ response_time = 2
    /\ timed_call = 2

\* C10: when the transport has failed, request has logged the failure at
\* error level as its last line and raised the transport's own exception;
\* it has returned no response and logged none.
C10_TransportErrorReraised ==
    (CallFinished /\ call.transport_exception # NoException) =>
        /\ call.done = "raised"
        /\ call.raised = call.transport_exception
        /\ call.raised.call = call.id
        /\ call.raised.type \in {"ConnectionError", "RetryError"}
        /\ call.returned = NoResponse
        /\ log[Len(log)] =
              [level |-> "ERROR", event |-> "Request failed",
               exc |-> call.transport_exception]
        /\ \A i \in 1..Len(log) : log[i].event # "response"

C10_Witness ==
    /\ CallFinished
    /\ call.done = "raised"
    /\ call.raised = [call |-> call.id, type |-> "ConnectionError"]
    /\ call.attempts >= 2
    /\ log[Len(log)].level = "ERROR"

\* ------------------------------------------- assertion-layer operations
\* key names and path expressions
KeyA == <<"a">>
KeyB == <<"b">>
KeyC == <<"c">>
KeyADotB == <<"a", ".", "b">>
KeyADashB == <<"a", "-", "b">>

\* the key_path arguments: the key names, a nested path that exists in no
\* document, an incomplete expression and the empty one
KeyPaths ==
    {KeyA, KeyB, KeyC, KeyADotB, KeyADashB, <<"a", ".", "c">>,
     <<"a", ".">>, <<>>}

\* JSON bodies of answers to requests without json_data
Documents ==
    {JObj([k \in {KeyA, KeyB} |-> IF k = KeyA THEN JInt(1) ELSE JNull]),
     JObj([k \in {KeyA} |-> JObj([j \in {KeyB} |-> JStr(<<"x">>)])]),
     JObj([k \in {KeyA} |-> JList(<<JInt(1)>>)]),
     JList(<<>>)}

\* json_data arguments of post: JSON objects with plain keys, with a key
\* that holds a '.', with a key that holds a '-', and a dict holding a tuple
Payloads ==
    {JObj([k \in {KeyA, KeyB} |->
              IF k = KeyA THEN JInt(1) ELSE JStr(<<"x">>)]),
     JObj([k \in {KeyA, KeyADotB} |->
              IF k = KeyA THEN JObj([j \in {KeyB} |-> JInt(2)])
              ELSE JInt(1)]),
     JObj([k \in {KeyADashB} |-> JInt(1)]),
     JObj([k \in {KeyA} |-> PyTuple(<<JInt(1)>>)])}

CheckedUrl == HTTPS \o <<"h", "/", "a">>

\* the responses a test hands to the assertion layer: answers with and
\* without a JSON body, and the answers of a target that echoes the
\* json_data of post(endpoint, json_data=payload)
CheckedResponses ==
    {Response(st, CheckedUrl, FALSE, JNull, JNull) : st \in {200, 404}}
    \cup {Response(st, CheckedUrl, TRUE, doc, JNull) :
            st \in {200, 404}, doc \in Documents}
    \cup {Response(201, CheckedUrl, TRUE, json_roundtrip(payload), payload) :
            payload \in Payloads}

\* the expected_value arguments: None and the top-level values of Payloads
ExpectedValues ==
    {JNull} \cup UNION {{payload.fields[k] : k \in DOMAIN payload.fields} :
                           payload \in Payloads}

Schemas ==
    {Schema("object", <<KeyA>>, [k \in {KeyA} |-> "integer"]),
     Schema("any", <<KeyA, KeyB>>, <<>>),
     Schema("object", <<KeyC, KeyB>>, <<>>)}

AssertJsonSchema(schema, message) ==
    /\ Check("APIAssertions", "assert_json_schema",
             [schema |-> schema, message |-> message],
             assert_json_schema(checked_response, schema, message))
    /\ UNCHANGED first_outcome

AssertJsonKeyExists(key_path, message) ==
    /\ Check("APIAssertions", "assert_json_key_exists",
             [key_path |-> key_path, message |-> message],
             assert_json_key_exists(checked_response, key_path, message))
    /\ UNCHANGED first_outcome

AssertJsonKeyValue(key_path, expected_value, message) ==
    /\ Check("APIAssertions", "assert_json_key_value",
             [key_path |-> key_path, expected_value |-> expected_value,
              message |-> message],
             assert_json_key_value(checked_response, key_path,
                                   expected_value, message))
    /\ UNCHANGED first_outcome

AssertJsonArrayLength(key_path, expected_length, message) ==
    /\ Check("APIAssertions", "assert_json_array_length",
             [key_path |-> key_path, expected_length |-> expected_length,
              message |-> message],
             assert_json_array_length(checked_response, key_path,
                                      expected_length, message))
    /\ UNCHANGED first_outcome

AssertJsonTypes(key_path, expected_type, message) ==
    /\ Check("APIAssertions", "assert_json_types",
             [key_path |-> key_path, expected_type |-> expected_type,
              message |-> message],
             assert_json_types(checked_response, key_path, expected_type,
                               message))
    /\ UNCHANGED first_outcome

\* a test has a response in hand, from a client built on the defaults
ResponseInHand(resp) ==
    /\ ClientConstructed(HTTPS \o <<"h">>, [timeout |-> 30, retry_count |-> 0])
    /\ checked_response = resp
    /\ assertion = NoAssertion
    /\ first_outcome = [e \in ExpectedStatuses |-> NoOutcome]

StatusCheck ==
    \E e \in ExpectedStatuses, m \in MessageArgs : AssertStatusCode(e, m)

AdvancedStatusCheck ==
    \E e \in ExpectedStatuses, m \in MessageArgs :
        AdvancedAssertStatusCode(e, m)

SchemaCheck == \E sc \in Schemas, m \in MessageArgs : AssertJsonSchema(sc, m)

KeyExistsCheck ==
    \E k \in KeyPaths, m \in MessageArgs : AssertJsonKeyExists(k, m)

KeyValueCheck ==
    \E k \in KeyPaths, v \in ExpectedValues :
        AssertJsonKeyValue(k, v, NoMessage)

ArrayLengthCheck ==
    \E k \in KeyPaths, n \in {0, 1} : AssertJsonArrayLength(k, n, NoMessage)

TypesCheck ==
    \E k \in KeyPaths, t \in {"int", "list"} : AssertJsonTypes(k, t, NoMessage)

InitAssert == \E resp \in CheckedResponses : ResponseInHand(resp)

NextAssert ==
    \/ StatusCheck
    \/ AdvancedStatusCheck
    \/ SchemaCheck
    \/ KeyExistsCheck
    \/ KeyValueCheck
    \/ ArrayLengthCheck
    \/ TypesCheck

SpecAssert == InitAssert /\ [][NextAssert]_vars

\* ------------------------------------------------------------------ claims
\* the settings the claims name as the internal defaults
InternalDefaults ==
    [base_url |-> <<"h", "t", "t", "p", "s", ":", "/", "/",
                    "jsonplaceholder.typicode.com">>,
     timeout |-> 30,
     retry_count |-> 3,
     retry_delay |-> 1,
     headers |-> [n \in {"Content-Type", "Accept"} |->
                     <<"application/json">>]]

\* C11: constructing Config does not raise when environments.json is
\* absent or is not valid JSON (text that json.load rejects, or bytes that
\* are no text at all): an absent file leaves one warning line, an invalid
\* one leaves one error line, and in both cases the settings the
\* constructor resolved are the internal defaults.
C11_DefaultsOnMissingOrInvalid ==
    (config_pc # "unloaded"
        /\ config_file.kind \in {"absent", "invalid_json", "undecodable"}) =>
        /\ config_pc = "loaded"
        /\ config_log = IF config_file.kind = "absent" THEN <<"WARNING">>
                        ELSE <<"ERROR">>
        /\ loaded_data = InternalDefaults
        /\ EffectiveSettings(loaded_data) = InternalDefaults

\* C12 as stated: with a readable file of environments, a requested name
\* that is not a key resolves to the hard-coded settings, and a name that
\* is a key resolves to exactly that environment's sub-mapping.
C12_HardCodedDevFallback ==
    (config_pc = "loaded" /\ config_file.kind = "object") =>
        IF environment \in DOMAIN config_file.envs
        THEN loaded_data = config_file.envs[environment]
        ELSE EffectiveSettings(loaded_data) = InternalDefaults

\* C12 amended: a name that is a key resolves to exactly that environment's
\* sub-mapping; a name that is not a key resolves to the file's own "dev"
\* sub-mapping when the file has one, and otherwise to the empty mapping,
\* whose effective settings are the internal defaults.
C12_FileDevFallback ==
    (config_pc = "loaded" /\ config_file.kind = "object") =>
        IF environment \in DOMAIN config_file.envs
        THEN loaded_data = config_file.envs[environment]
        ELSE IF "dev" \in DOMAIN config_file.envs
        THEN loaded_data = config_file.envs["dev"]
        ELSE /\ DOMAIN loaded_data = {}
             /\ EffectiveSettings(loaded_data) = InternalDefaults

C12_Witness ==
    /\ config_pc = "loaded"
    /\ config_file.kind = "object"
    /\ environment = "prod"
    /\ "dev" \in DOMAIN config_file.envs
    /\ loaded_data = config_file.envs["dev"]
    /\ Config_timeout(loaded_data) = 5

\* C13: once the configuration is loaded, whatever the file held and
\* whatever Config.update and client constructions followed, the effective
\* timeout, retry_count and retry_delay are non-negative and the base_url
\* of a constructed client does not end in a slash.
C13_SettingsValidated ==
    config_pc = "loaded" =>
        /\ Config_timeout(config_data) >= 0
        /\ Config_retry_count(config_data) >= 0
        /\ Config_retry_delay(config_data) >= 0
        /\ base_url # <<>> => base_url[Len(base_url)] # "/"

\* C14: a request issued after Config.update uses the configuration's
\* current values, also on a client constructed before the update: while a
\* call is in progress its Retry allows the configured retry_count and,
\* with no timeout argument, its timeout is the configured one.
C14_UpdateReachesRequests ==
    pc # "idle" =>
        /\ call.retries = Config_retry_count(config_data)
        /\ call.timeout = NoTimeout =>
              call.sent_timeout = Config_timeout(config_data)

Outcome == assertion.result.outcome

StatusCheckCalled == assertion.check = "assert_status_code"

\* C15: whenever assert_status_code, of APIAssertions or of
\* AdvancedAPIAssertions, is called on a response whose status differs from
\* the expected one, it raises the assertion failure with a context
\* mapping that holds the actual status and the request URL.
C15_FailureCarriesContext ==
    (StatusCheckCalled
        /\ checked_response.status_code # assertion.args.expected_code) =>
        /\ Outcome = "AssertionError"
        /\ assertion.result.has_context
        /\ assertion.result.context.actual_status
              = checked_response.status_code
        /\ assertion.result.context.url = checked_response.url

\* C16: api_assert.assert_status_code is read-only and repeatable: a call
\* ends as the first call with the same expected status on that response
\* ended, and a call changes neither the response nor any state of the
\* client or of the configuration.
C16_StatusCheckReadOnly ==
    /\ [](StatusCheckCalled /\ assertion.layer = "APIAssertions" =>
            Outcome = first_outcome[assertion.args.expected_code].outcome)
    /\ [][(assertion'.check = "assert_status_code") =>
            /\ checked_response' = checked_response
            /\ UNCHANGED <<config_data, base_url, session_headers,
                           session_auth, retry_total, last_response,
                           response_time>>]_vars

C16_Witness ==
    /\ StatusCheckCalled
    /\ assertion.layer = "APIAssertions"
    /\ assertion.args.expected_code = 200
    /\ checked_response.status_code = 404
    /\ first_outcome[200].calls = 2
    /\ first_outcome[200].outcome = "AssertionError"
    /\ Outcome = "AssertionError"

\* a value that a JSON document can hold: no tuple in it
RECURSIVE IsJson(_)
IsJson(value) ==
    /\ value.type # "tuple"
    /\ \A i \in DOMAIN value.items : IsJson(value.items[i])
    /\ \A k \in DOMAIN value.fields : IsJson(value.fields[k])

\* the last call is assert_json_key_value(response, k, payload[k]) for a
\* top-level key k of the JSON object payload whose echo the response is
EchoedKeyValueCall ==
    /\ assertion.check = "assert_json_key_value"
    /\ checked_response.json_data # JNull
    /\ IsJson(checked_response.json_data)
    /\ assertion.args.key_path \in DOMAIN checked_response.json_data.fields
    /\ assertion.args.expected_value =
          checked_response.json_data.fields[assertion.args.key_path]

PlainKey(key) ==
    /\ key # <<>>
    /\ \A i \in 1..Len(key) : key[i] \notin {".", "-"}

SchemaCheckCalled == assertion.check = "assert_json_schema"

\* the required fields of the last call's schema that the body does not have
MissingFields ==
    {assertion.args.schema.required[i] :
        i \in 1..Len(assertion.args.schema.required)}
    \ (IF checked_response.body.type = "dict"
       THEN DOMAIN checked_response.body.fields ELSE {})

\* the body satisfies the last call's schema
Conforms ==
    LET body == checked_response.body
        schema == assertion.args.schema
    IN /\ schema.type = "object" => body.type = "dict"
       /\ body.type = "dict" =>
            /\ MissingFields = {}
            /\ \A k \in (DOMAIN schema.properties) \cap (DOMAIN body.fields) :
                  schema.properties[k] =
                     (CASE body.fields[k].type = "int" -> "integer"
                        [] body.fields[k].type = "str" -> "string"
                        [] body.fields[k].type = "list" -> "array"
                        [] body.fields[k].type = "dict" -> "object"
                        [] OTHER -> "null")

\* the failure's message is the default one and names a missing field
NamesMissingField ==
    /\ assertion.result.message.template
          = "Schema validation failed: {e.message}"
    /\ assertion.result.message.args[1] = "required"
    /\ assertion.result.message.args[2] \in MissingFields

PathCheckCalled ==
    assertion.check \in {"assert_json_key_exists", "assert_json_key_value",
                         "assert_json_array_length", "assert_json_types"}

\* the path names a field that the document has, whatever its value
RECURSIVE HasField(_, _)
HasField(value, parts) ==
    IF parts = <<>> THEN TRUE
    ELSE /\ value.type = "dict"
         /\ parts[1] \in DOMAIN value.fields
         /\ HasField(value.fields[parts[1]], Tail(parts))

Addresses(key_path) ==
    HasField(checked_response.body, Split(key_path, "."))

\* C19: a path-based check whose (well-formed) path addresses nothing in
\* the JSON body ends in an assertion failure, and assert_json_key_exists
\* passes on a path that addresses an existing field.
C19_NothingAddressedFails ==
    (PathCheckCalled /\ checked_response.is_json
        /\ jmespath_compile(assertion.args.key_path) = "None") =>
        /\ ~Addresses(assertion.args.key_path) => Outcome = "AssertionError"
        /\ (assertion.check = "assert_json_key_exists"
               /\ Addresses(assertion.args.key_path)) => Outcome = "passed"

\* C20: a check that ends in an assertion failure has emitted, before
\* raising, an error-level log line that carries the expected and the
\* actual value.
C20_ErrorLoggedBeforeFailure ==
    Outcome = "AssertionError" =>
        \E i \in 1..Len(assertion.result.log) :
            /\ assertion.result.log[i].level = "ERROR"
            /\ {"expected", "actual"} \subseteq assertion.result.log[i].carries

\* Response.__bool__ is Response.ok: False for a status of 400..599
ok(resp) == ~(resp.status >= 400 /\ resp.status < 600)

\* `if self.last_response`: None and a response that is not ok are falsy
Truthy(resp) == resp # NoResponse /\ ok(resp)

\* the text of a response, named after the call it answers
ResponseText(resp) == <<"text of call", resp.call>>

\* APIClient.get_status_code
get_status_code == IF Truthy(last_response) THEN last_response.status ELSE 0

\* APIClient.get_response_text ('' is <<>>)
get_response_text ==
    IF Truthy(last_response) THEN ResponseText(last_response) ELSE <<>>

\* C23: after a call that returned a response with status s, whatever s
\* is, get_status_code() gives s and get_response_text() the response's
\* text; the accessors give 0 and '' only while the client holds no
\* response.
C23_AccessorsDescribeResponse ==
    /\ (CallFinished /\ call.done = "returned") =>
          /\ get_status_code = call.returned.status
          /\ get_response_text = ResponseText(call.returned)
    /\ get_status_code = 0 => last_response = NoResponse

\* C24: a call that raises leaves last_response and the session's default
\* headers as they were before the call, at each of its steps, and
\* overwrites response_time with its own elapsed time; afterwards
\* response_time belongs to the failed call and last_response does not.
C24_FailedCallFrame ==
    /\ []((CallFinished /\ call.done = "raised") =>
            /\ response_time = call.elapsed
            /\ timed_call = call.id
            /\ last_response.call # call.id)
    /\ [][(call' # call /\ (pc' # "idle" \/ call'.done = "raised")) =>
            /\ last_response' = last_response
            /\ session_headers' = session_headers
            /\ session_auth' = session_auth]_vars

C24_Witness ==
    /\ CallFinished
    /\ call.done = "raised"
    /\ call.id = 2
    /\ last_response = [call |-> 1, status |-> 200]
    /\ timed_call = 2
    /\ "Authorization" \in DOMAIN session_headers

\* ------------------------------------------------- the duration of a call
\* urllib3 Retry.get_backoff_time: no sleep before the first retry, then
\* backoff_factor * 2^(consecutive errors - 1)
get_backoff_time(backoff_factor, errors) ==
    IF errors <= 1 THEN 0 ELSE backoff_factor * 2^(errors - 1)

RECURSIVE TotalBackoff(_, _)
\* the sleeps before `retries` re-issued attempts
TotalBackoff(backoff_factor, retries) ==
    IF retries <= 0 THEN 0
    ELSE TotalBackoff(backoff_factor, retries - 1)
            + get_backoff_time(backoff_factor, retries)

\* session.request(..., timeout=t): the adapter hands t to every attempt as
\* its connect and read timeout. A connection attempt fails at once or when
\* t has passed; an answer arrives at once or just before t has passed.
AttemptTimes(outcome, t) == IF outcome = CONNFAIL THEN {0, t} ELSE {0, t - 1}

RECURSIVE TransportTimes(_, _)
TransportTimes(outcomes, t) ==
    IF outcomes = <<>> THEN {0}
    ELSE {a + b : a \in TransportTimes(SubSeq(outcomes, 1, Len(outcomes) - 1), t),
                  b \in AttemptTimes(outcomes[Len(outcomes)], t)}

\* time.time() - start_time once session.request has returned or raised
CallTimes(c) ==
    {d + TotalBackoff(Config_retry_delay(config_data), c.attempts - 1) :
        d \in TransportTimes(c.outcomes, c.sent_timeout)}

PositiveTimeouts == {NoTimeout, <<5>>}

InitTimed ==
    \E r \in 0..MaxRetry :
        ConstructedWith(HTTPS \o <<"h">>, [timeout |-> 30, retry_count |-> r])

TimedRequest == RequestOf({"GET"}, CallEndpoints, {<<>>}, PositiveTimeouts)

TimedReturn == \E e \in CallTimes(call) : ReturnStep(e)

TimedRaise == \E e \in CallTimes(call) : RaiseStep(e)

NextTimed ==
    \/ TimedRequest
    \/ Transport
    \/ TimedReturn
    \/ TimedRaise

SpecTimed == InitTimed /\ [][NextTimed]_vars

\* C22: a call is bounded by one timeout for the whole call, retries and
\* backoff included: a call that has taken as long as its timeout or longer
\* has raised a transport error and has not returned a response.
C22_AbsoluteTimeout ==
    (CallFinished /\ call.elapsed >= call.sent_timeout) => call.done = "raised"

\* ------------------------------------- worker threads on a shared client
\* what a worker step leaves alone: it writes the two slots of the client
\* and the worker's own locals
worker_frame ==
    <<beside_thread_vars, load_vars, check_vars, config_data, base_url,
      session_headers, session_auth, retry_total, pc, call, log,
      header_history>>

\* what the target answers to a worker's call
WorkerOutcomes == {200, CONNFAIL}

MayStore_locked(t) ==
    \A u \in Workers \ {t} : threads[u].pc # "store_response"

\* lines 106-107 and 115 assign self.response_time and self.last_response
\* with no lock held: a thread never waits for another one
MayStore(t) == TRUE

\* worker(): self.api_client.get(endpoint) -> request, up to session.request
WorkerBegin(t) ==
    /\ threads[t].pc \in {"idle", "read", "raised"}
    /\ ncalls < MaxCalls
    /\ ncalls' = ncalls + 1
    /\ threads' = [threads EXCEPT ![t] =
                      [IdleWorker EXCEPT !.pc = "sending", !.id = ncalls + 1]]
    /\ UNCHANGED <<worker_frame, last_response, response_time, timed_call>>

\* session.request returns a response or raises
WorkerTransport(t, outcome) ==
    /\ threads[t].pc = "sending"
    /\ threads' = [threads EXCEPT ![t] =
          IF outcome = CONNFAIL
          THEN [@ EXCEPT !.pc = "fail",
                         !.exception = [call |-> threads[t].id,
                                        type |-> "ConnectionError"]]
          ELSE [@ EXCEPT !.pc = "store_time",
                         !.response = [call |-> threads[t].id,
                                       status |-> outcome]]]
    /\ UNCHANGED <<worker_frame, ncalls, last_response, response_time,
                   timed_call>>

\* line 106: self.response_time = time.time() - start_time
WorkerStoreTime(t, elapsed) ==
    /\ threads[t].pc = "store_time"
    /\ MayStore(t)
    /\ response_time' = elapsed
    /\ timed_call' = threads[t].id
    /\ threads' = [threads EXCEPT ![t].pc = "store_response"]
    /\ UNCHANGED <<worker_frame, ncalls, last_response>>

\* line 107: self.last_response = response
WorkerStoreResponse(t) ==
    /\ threads[t].pc = "store_response"
    /\ MayStore(t)
    /\ last_response' = threads[t].response
    /\ threads' = [threads EXCEPT ![t].pc = "log"]
    /\ UNCHANGED <<worker_frame, ncalls, response_time, timed_call>>

\* lines 110-112: self._log_response(response, self.response_time) reads the
\* slot again; return response
WorkerReturn(t) ==
    /\ threads[t].pc = "log"
    /\ threads' = [threads EXCEPT ![t].pc = "returned",
                                  ![t].logged_time = timed_call]
    /\ UNCHANGED <<worker_frame, ncalls, last_response, response_time,
                   timed_call>>

\* lines 114-117: self.response_time = ...; raise
WorkerRaise(t, elapsed) ==
    /\ threads[t].pc = "fail"
    /\ MayStore(t)
    /\ response_time' = elapsed
    /\ timed_call' = threads[t].id
    /\ threads' = [threads EXCEPT ![t].pc = "raised"]
    /\ UNCHANGED <<worker_frame, ncalls, last_response>>

\* the caller, its call having returned, reads client.last_response and
\* client.response_time (get_status_code(), assert_response_time(...))
WorkerRead(t) ==
    /\ threads[t].pc = "returned"
    /\ threads' = [threads EXCEPT ![t].pc = "read",
                                  ![t].read = [response |-> last_response.call,
                                               time |-> timed_call]]
    /\ UNCHANGED <<worker_frame, ncalls, last_response, response_time,
                   timed_call>>

InitThreads ==
    ConstructedWith(HTTPS \o <<"h">>, [timeout |-> 30, retry_count |-> 0])

Begin == \E t \in Workers : WorkerBegin(t)

Answer == \E t \in Workers, o \in WorkerOutcomes : WorkerTransport(t, o)

StoreTime == \E t \in Workers, e \in ElapsedTimes : WorkerStoreTime(t, e)

StoreResponse == \E t \in Workers : WorkerStoreResponse(t)

Return == \E t \in Workers : WorkerReturn(t)

Raise == \E t \in Workers, e \in ElapsedTimes : WorkerRaise(t, e)

Read == \E t \in Workers : WorkerRead(t)

NextThreads ==
    \/ Begin
    \/ Answer
    \/ StoreTime
    \/ StoreResponse
    \/ Return
    \/ Raise
    \/ Read

SpecThreads == InitThreads /\ [][NextThreads]_vars

\* C21: the slot last_response/response_time of a client shared by two
\* threads is unprotected: a thread that is about to assign either field is
\* never made to wait for the other thread, whatever that one is doing, so
\* the assignments of two calls interleave freely.
C21_SlotUnprotected ==
    \A t \in Workers :
        /\ threads[t].pc = "store_time" =>
              ENABLED (\E e \in ElapsedTimes : WorkerStoreTime(t, e))
        /\ threads[t].pc = "store_response" => ENABLED WorkerStoreResponse(t)
        /\ threads[t].pc = "fail" =>
              ENABLED (\E e \in ElapsedTimes : WorkerRaise(t, e))

\* a thread whose own call has returned reads the response of its call next
\* to the response time of the other thread's call: it read a value of the
\* other call, and the two fields belonged to two different calls
C21_Witness ==
    \E t \in Workers, u \in Workers :
        /\ t # u
        /\ threads[t].pc = "read"
        /\ threads[t].read.response = threads[t].id
        /\ threads[t].read.time = threads[u].id
        /\ threads[u].response.call = threads[u].id
        /\ threads[u].id # 0

\* --------------------- test_token_based_authentication on the shared client
\* "/login" and "/users/2", shortened
LoginEndpoint == <<"/", "l">>
UserEndpoint == <<"/", "u">>

\* login_response.json().get("token"): a token, or None (<<>>) when the
\* body carries none
LoginTokens == {<<>>, <<"abc">>}

\* what a step of the test itself leaves alone
test_frame ==
    <<beside_auth_test_vars, load_vars, check_vars, config_data, base_url,
      session_auth, retry_total, last_response, response_time, timed_call,
      pc, call, log, ncalls>>

\* api_assert.assert_status_code(response, 200) on the response of the call
\* that has just returned
StatusIs200 ==
    assert_status_code(Response(call.returned.status, call.url, FALSE,
                                JNull, JNull), 200, NoMessage).outcome
        = "passed"

\* pytest calls the test with the session-wide reqres_api fixture
TestStart ==
    /\ test_pc = "not run"
    /\ pc = "idle"
    /\ test_pc' = "login"
    /\ UNCHANGED <<test_frame, session_headers, header_history>>

\* line 172: reqres_api.post("/login", json_data=login_data)
TestLogin ==
    /\ test_pc = "login"
    /\ ncalls = 0
    /\ RequestBegin("POST", LoginEndpoint, <<>>, NoTimeout)

\* lines 173-179: the call raised, or an assertion on the login response
\* fails, or the token becomes the client's Authorization header
TestAfterLogin(token) ==
    /\ test_pc = "login"
    /\ CallFinished
    /\ IF call.done = "raised"
       THEN /\ test_pc' = "error"
            /\ UNCHANGED <<session_headers, header_history>>
       ELSE IF ~StatusIs200 \/ token = <<>>
       THEN /\ test_pc' = "failed"
            /\ UNCHANGED <<session_headers, header_history>>
       ELSE /\ test_pc' = "authenticated"
            /\ session_headers' =
                  [n \in (DOMAIN session_headers) \cup {"Authorization"} |->
                      IF n = "Authorization"
                      THEN AuthHeaderValue("Bearer", token[1])
                      ELSE session_headers[n]]
            /\ header_history' = [header_history EXCEPT !["Authorization"] =
                  [op |-> "set", value |-> <<"Bearer", " ", token[1]>>]]
    /\ UNCHANGED test_frame

\* line 182: reqres_api.get("/users/2")
TestGetUser ==
    /\ test_pc = "authenticated"
    /\ ncalls = 1
    /\ RequestBegin("GET", UserEndpoint, <<>>, NoTimeout)

\* lines 185-188: the call raised, or the assertion fails, or the header is
\* removed as the last statement of the test
TestAfterGetUser ==
    /\ test_pc = "authenticated"
    /\ CallFinished
    /\ call.id = 2
    /\ IF call.done = "raised"
       THEN /\ test_pc' = "error"
            /\ UNCHANGED <<session_headers, header_history>>
       ELSE IF ~StatusIs200
       THEN /\ test_pc' = "failed"
            /\ UNCHANGED <<session_headers, header_history>>
       ELSE /\ test_pc' = "passed"
            /\ session_headers' =
                  [n \in (DOMAIN session_headers) \ {"Authorization"} |->
                      session_headers[n]]
            /\ header_history' = [header_history EXCEPT !["Authorization"] =
                  [op |-> "removed", value |-> <<>>]]
    /\ UNCHANGED test_frame

InitAuthTest ==
    \E r \in 0..MaxRetry :
        ConstructedWith(HTTPS \o <<"h">>, [timeout |-> 30, retry_count |-> r])

AfterLogin == \E token \in LoginTokens : TestAfterLogin(token)

NextAuthTest ==
    \/ TestStart
    \/ TestLogin
    \/ Transport
    \/ RequestReturn
    \/ RequestRaise
    \/ AfterLogin
    \/ TestGetUser
    \/ TestAfterGetUser

SpecAuthTest == InitAuthTest /\ [][NextAuthTest]_vars

\* the test has run to its last statement or to a failing assertion
AssertionsEnded == test_pc \in {"passed", "failed"}

\* C25: once test_token_based_authentication has run on the shared client,
\* however its assertions ended, the client carries no Authorization header.
C25_NoTokenAfterTest ==
    AssertionsEnded => "Authorization" \notin DOMAIN session_headers

\* ------------------------------------------------- api_test(retry_count=n)
ExceptionKinds == {"Exception", "BaseException"}

\* the test functions: always raising, or succeeding on invocation k
TestFunctions ==
    [succeeds_on : 0..(MaxRetryCount + 1), raises : ExceptionKinds]

retry_frame ==
    <<beside_retry_vars, client_vars, load_vars, check_vars>>

RetryTries_after_first_call(max_retries) == max_retries + 1

\* retry_on_failure: retry_decorator(tries=max_retries, ...): the total
\* number of attempts
RetryTries(max_retries) == max_retries

\* `except exceptions as e` with exceptions=Exception, the default that
\* retry_on_failure leaves in place
Caught(type) == type = "Exception"

\* api_test(retry_count=n)(func): retry_on_failure wraps func when n > 0;
\* allure_test_case and log_test_execution pass the call, the result and
\* the exception through
Decorate(n, func) ==
    /\ retry_pc = "undecorated"
    /\ decorated' = [retry_count |-> n, func |-> func]
    /\ retry_pc' = "ready"
    /\ UNCHANGED <<retry_frame, _tries, invocations, test_outcome>>

\* the decorated function is called: __retry_internal sets _tries = tries
CallDecorated ==
    /\ retry_pc = "ready"
    /\ retry_pc' = "running"
    /\ _tries' = IF decorated.retry_count > 0
                 THEN RetryTries(decorated.retry_count) ELSE 0
    /\ UNCHANGED <<retry_frame, decorated, invocations, test_outcome>>

\* one invocation of func: it returns, or it raises; under the retry
\* wrapper a caught exception takes one from _tries and is re-raised when
\* none is left (the sleep of delay * backoff between attempts changes no
\* state)
Invoke ==
    /\ retry_pc = "running"
    /\ invocations' = invocations + 1
    /\ LET n == invocations + 1
           func == decorated.func
           raised == [kind |-> "raised", exception |-> n, type |-> func.raises]
       IN IF func.succeeds_on = n
          THEN /\ test_outcome' = [kind |-> "returned", exception |-> 0,
                                   type |-> "None"]
               /\ retry_pc' = "done"
               /\ UNCHANGED _tries
          ELSE IF decorated.retry_count > 0 /\ Caught(func.raises)
          THEN /\ _tries' = _tries - 1
               /\ IF _tries - 1 = 0
                  THEN test_outcome' = raised /\ retry_pc' = "done"
                  ELSE UNCHANGED test_outcome /\ retry_pc' = "running"
          ELSE /\ test_outcome' = raised
               /\ retry_pc' = "done"
               /\ UNCHANGED _tries
    /\ UNCHANGED <<retry_frame, decorated>>

InitRetry ==
    ConstructedWith(HTTPS \o <<"h">>, [timeout |-> 30, retry_count |-> 0])

DecorateTest ==
    \E n \in 0..MaxRetryCount, func \in TestFunctions : Decorate(n, func)

NextRetry ==
    \/ DecorateTest
    \/ CallDecorated
    \/ Invoke

SpecRetry == InitRetry /\ [][NextRetry]_vars

RetryDone == retry_pc = "done"

\* the last exception propagated
LastExceptionRaised ==
    test_outcome.kind = "raised" /\ test_outcome.exception = invocations

\* invoked n times, then the last exception propagates; invoked k times and
\* returned; invoked once
RetryContract(n, func) ==
    /\ (n > 0 /\ func.succeeds_on = 0) =>
          invocations = n /\ LastExceptionRaised
    /\ (n > 0 /\ func.succeeds_on \in 1..n) =>
          invocations = func.succeeds_on /\ test_outcome.kind = "returned"
    /\ n = 0 => invocations = 1

\* C26 (as stated): with api_test(retry_count = n), n > 0, an always-raising
\* test function is invoked exactly n times and its last exception
\* propagates, one that succeeds on attempt k <= n is invoked exactly k times
\* and its result returned; with retry_count = 0 it is invoked exactly once.
C26_EveryExceptionRetried ==
    RetryDone => RetryContract(decorated.retry_count, decorated.func)

\* C26 (amended): the same for a function whose exceptions derive from
\* Exception; an exception that derives from BaseException only is not
\* caught by the retry wrapper and propagates from the invocation that raised
\* it, whatever is left of the n attempts.
C26_ExceptionsRetried ==
    RetryDone =>
        /\ (decorated.func.raises = "Exception" \/ decorated.func.succeeds_on = 1)
              => RetryContract(decorated.retry_count, decorated.func)
        /\ (decorated.func.raises = "BaseException"
                /\ decorated.func.succeeds_on # 1) =>
              invocations = 1 /\ LastExceptionRaised

C26_Witness ==
    /\ RetryDone
    /\ decorated.retry_count = 3
    /\ decorated.func.succeeds_on = 0
    /\ decorated.func.raises = "Exception"
    /\ invocations = 3
    /\ LastExceptionRaised

\* ------------------------------------------- EnhancedLogger.test_context
\* dict.update, {**a, **b}
dict_update(d, u) ==
    [k \in (DOMAIN d) \cup (DOMAIN u) |-> IF k \in DOMAIN u THEN u[k] ELSE d[k]]

RECURSIVE FormatFrom(_, _, _)
\* str.format over the text from position i, with the keyword arguments
\* `names` and no positional ones: "{{" and "}}" are literal braces, "{name}"
\* is replaced when name is a keyword and raises KeyError when it is not,
\* "{}" raises IndexError, a single brace raises ValueError
FormatFrom(text, i, names) ==
    IF i > Len(text) THEN "None"
    ELSE IF text[i] = "{"
    THEN IF i < Len(text) /\ text[i + 1] = "{"
         THEN FormatFrom(text, i + 2, names)
         ELSE LET closing == {j \in (i + 1)..Len(text) : text[j] = "}"}
              IN IF closing = {} THEN "ValueError"
                 ELSE LET j == CHOOSE c \in closing : \A o \in closing : c <= o
                          field == SubSeq(text, i + 1, j - 1)
                      IN IF field = <<>> THEN "IndexError"
                         ELSE IF field \in names
                         THEN FormatFrom(text, j + 1, names)
                         ELSE "KeyError"
    ELSE IF text[i] = "}"
    THEN IF i < Len(text) /\ text[i + 1] = "}"
         THEN FormatFrom(text, i + 2, names)
         ELSE "ValueError"
    ELSE FormatFrom(text, i + 1, names)

\* loguru's logger.<level>(message, extra=context): a call with keyword
\* arguments formats the message with them (message.format(extra=context))
\* before any handler sees it; the type of the exception it raises, or "None"
loguru_log(message) == FormatFrom(message, 1, {<<"extra">>})

\* EnhancedLogger._log_with_context: the entry is stored, then loguru is
\* called
LogEntry(level, message, metadata) ==
    [level |-> level, message |-> message, metadata |-> metadata]

\* the names a test_context block is given (pytest node names)
TestNames == {<<"t">>, <<"u">>}

\* str(e) of the exceptions a body raises: a plain text, and texts quoting a
\* JSON document, a doubled pair of braces and a lone brace
ExceptionTexts ==
    {<<"e">>, <<"{", "e", "}">>, <<"{", "{", "e", "}", "}">>, <<"e", "}">>}

logger_frame ==
    <<beside_logger_vars, client_vars, load_vars, check_vars>>

\* with enhanced_logger.test_context(test_name): lines 197-210, up to the
\* yield
EnterTestContext(test_name) ==
    /\ uuids < MaxBlocks
    /\ loguru_log(<<"Starting test: ">> \o test_name) = "None"
    /\ LET correlation_id == uuids + 1
           old_context == current_context
       IN /\ uuids' = uuids + 1
          /\ current_context' =
                dict_update(current_context,
                    [k \in {"test_name", "environment", "correlation_id"} |->
                        IF k = "test_name" THEN test_name
                        ELSE IF k = "environment" THEN <<"dev">>
                        ELSE <<correlation_id>>])
          /\ log_entries' =
                Append(log_entries,
                       LogEntry("INFO", <<"Starting test: ">> \o test_name,
                                <<"test_start">>))
          /\ blocks' = Append(blocks,
                [test_name |-> test_name, correlation_id |-> correlation_id,
                 old_context |-> old_context])
    /\ UNCHANGED <<logger_frame, performance_metrics, last_exit>>

\* the body of the innermost block is left: by a return (raised = NoRaised)
\* or by an exception. Lines 214-216 log an Exception and re-raise it, the
\* finally clause (lines 217-236) logs the completion, appends the metrics
\* and restores the context; an exception raised by the logging call in the
\* except clause goes out in place of the body's
ExitTestContext(raised, execution_time) ==
    /\ blocks # <<>>
    /\ LET b == blocks[Len(blocks)]
           failed == <<"Test failed: ">> \o raised.text
           completed == <<"Completed test: ">> \o b.test_name
           handled == raised.type = "Exception"
           logging == IF handled THEN loguru_log(failed) ELSE "None"
           out == IF logging = "None" THEN raised
                  ELSE [type |-> logging, text |-> <<>>, by |-> raised.by]
       IN /\ loguru_log(completed) = "None"
          /\ log_entries' =
                log_entries
                \o (IF handled
                    THEN <<LogEntry("ERROR", failed, <<"test_error">>)>>
                    ELSE <<>>)
                \o <<LogEntry("INFO", completed, <<"test_complete">>)>>
          /\ performance_metrics' =
                Append(performance_metrics,
                       [test_name |-> b.test_name,
                        environment |-> <<"dev">>,
                        execution_time |-> execution_time,
                        correlation_id |-> b.correlation_id])
          /\ current_context' = b.old_context
          /\ last_exit' =
                [correlation_id |-> b.correlation_id,
                 kind |-> IF raised = NoRaised THEN "returned" ELSE "raised",
                 raised |-> raised, out |-> out]
          /\ blocks' = SubSeq(blocks, 1, Len(blocks) - 1)
    /\ UNCHANGED <<logger_frame, uuids>>

InitLogger ==
    ConstructedWith(HTTPS \o <<"h">>, [timeout |-> 30, retry_count |-> 0])

Enter == \E n \in TestNames : EnterTestContext(n)

ExitByReturn == \E e \in ElapsedTimes : ExitTestContext(NoRaised, e)

ExitByRaise ==
    \E type \in ExceptionKinds, text \in ExceptionTexts, e \in ElapsedTimes :
        ExitTestContext([type |-> type, text |-> text,
                         by |-> blocks[Len(blocks)].correlation_id], e)

NextLogger ==
    \/ Enter
    \/ ExitByReturn
    \/ ExitByRaise

SpecLogger == InitLogger /\ [][NextLogger]_vars

\* C27: test_context is properly bracketed: when a block is left, by a
\* return or by an exception, current_context is what it was before the block
\* was entered, exactly one performance_metrics entry has been appended, for
\* that block, and an exception raised by the body is the one that goes out.
C27_ProperlyBracketed ==
    [][Len(blocks') < Len(blocks) =>
          LET b == blocks[Len(blocks)]
          IN /\ current_context' = b.old_context
             /\ Len(performance_metrics') = Len(performance_metrics) + 1
             /\ performance_metrics'[Len(performance_metrics')].correlation_id
                   = b.correlation_id
             /\ last_exit'.kind = "raised" =>
                   last_exit'.out = last_exit'.raised]_vars

\* -------------------------------------------- EnhancedLogger.log_api_request
\* the upper-case letters of the names below
UpperCase == [A |-> "a", I |-> "i", K |-> "k", P |-> "p", X |-> "x",
              E |-> "e", Y |-> "y"]

\* str.lower
lower(chars) ==
    [i \in 1..Len(chars) |->
        IF chars[i] \in DOMAIN UpperCase THEN UpperCase[chars[i]]
        ELSE chars[i]]

\* `sub in chars`
Contains(chars, sub) ==
    \E i \in 1..(Len(chars) - Len(sub) + 1) :
        SubSeq(chars, i, i + Len(sub) - 1) = sub

\* sensitive_keys of _sanitize_headers
header_sensitive_keys ==
    {<<"a", "u", "t", "h", "o", "r", "i", "z", "a", "t", "i", "o", "n">>,
     <<"x", "-", "a", "p", "i", "-", "k", "e", "y">>,
     <<"a", "p", "i", "-", "k", "e", "y">>,
     <<"a", "c", "c", "e", "s", "s", "-", "t", "o", "k", "e", "n">>,
     <<"r", "e", "f", "r", "e", "s", "h", "-", "t", "o", "k", "e", "n">>,
     <<"j", "w", "t">>,
     <<"b", "e", "a", "r", "e", "r">>,
     <<"s", "e", "c", "r", "e", "t">>,
     <<"p", "a", "s", "s", "w", "o", "r", "d">>}

\* sensitive_keys of _sanitize_body
body_sensitive_keys ==
    {<<"p", "a", "s", "s", "w", "o", "r", "d">>,
     <<"s", "e", "c", "r", "e", "t">>,
     <<"t", "o", "k", "e", "n">>,
     <<"k", "e", "y">>,
     <<"c", "r", "e", "d", "e", "n", "t", "i", "a", "l">>}

REDACTED == <<"***REDACTED***">>

\* any(sensitive in key.lower() for sensitive in sensitive_keys)
IsSensitive(key, sensitive_keys) ==
    \E sensitive \in sensitive_keys : Contains(lower(key), sensitive)

\* EnhancedLogger._sanitize_headers
_sanitize_headers(headers) ==
    [key \in DOMAIN headers |->
        IF IsSensitive(key, header_sensitive_keys) THEN REDACTED
        ELSE headers[key]]

\* EnhancedLogger._sanitize_body: a falsy body as it is, the top-level
\* fields of a dict, str(body)[:500] of anything else
_sanitize_body(body) ==
    IF body = JNull \/ body = JObj(<<>>) \/ body = JStr(<<>>) THEN body
    ELSE IF body.type = "dict"
    THEN JObj([key \in DOMAIN body.fields |->
                 IF IsSensitive(key, body_sensitive_keys) THEN JStr(REDACTED)
                 ELSE body.fields[key]])
    ELSE JStr(SubSeq(body.str, 1, IF Len(body.str) < 500 THEN Len(body.str)
                                  ELSE 500))

AUTHORIZATION == <<"A", "u", "t", "h", "o", "r", "i", "z", "a", "t", "i", "o", "n">>
X_API_KEY == <<"X", "-", "A", "P", "I", "-", "K", "E", "Y">>
ACCEPT == <<"A", "c", "c", "e", "p", "t">>
PASSWORD == <<"p", "a", "s", "s", "w", "o", "r", "d">>
API_KEY == <<"A", "P", "I", "_", "K", "e", "y">>
USER == <<"u", "s", "e", "r">>

\* the headers handed to log_api_request
LoggedHeaders ==
    {EmptyDict,
     [n \in {ACCEPT} |-> ApplicationJson],
     [n \in {AUTHORIZATION, ACCEPT} |->
         IF n = ACCEPT THEN ApplicationJson ELSE <<"Bearer", " ", "abc">>],
     [n \in {X_API_KEY} |-> <<"k1">>]}

\* the bodies: None, a text, and mappings with a secret at the top level,
\* under a mixed-case name and inside a sub-mapping
LoggedBodies ==
    {JNull,
     JStr(<<"t">>),
     JObj([k \in {USER} |-> JStr(<<"u">>)]),
     JObj([k \in {USER, PASSWORD} |-> JStr(<<"pw">>)]),
     JObj([k \in {API_KEY} |-> JStr(<<"k1">>)]),
     JObj([k \in {USER} |-> JObj([j \in {PASSWORD} |-> JStr(<<"pw">>)])])}

\* log_entries apart, what log_api_request leaves alone
sanitize_frame ==
    <<client_vars, load_vars, check_vars, thread_vars, auth_test_vars,
      retry_vars, dashboard_vars, singleton_vars, current_context,
      performance_metrics, blocks, uuids, last_exit>>

\* EnhancedLogger.log_api_request(method, url, headers, body): the entry
\* holds the sanitized copies; the caller's headers and body are read only
log_api_request(headers, body) ==
    /\ Len(api_requests) < MaxLogged
    /\ LET safe_headers == _sanitize_headers(headers)
           safe_body == _sanitize_body(body)
       IN /\ log_entries' =
                Append(log_entries,
                       LogEntry("INFO", <<"API Request: ">>,
                                [headers |-> safe_headers,
                                 body |-> safe_body]))
          /\ api_requests' =
                Append(api_requests, [headers |-> headers, body |-> body])
    /\ UNCHANGED sanitize_frame

InitSanitize ==
    ConstructedWith(HTTPS \o <<"h">>, [timeout |-> 30, retry_count |-> 0])

LogApiRequest ==
    \E headers \in LoggedHeaders, body \in LoggedBodies :
        log_api_request(headers, body)

NextSanitize == LogApiRequest

SpecSanitize == InitSanitize /\ [][NextSanitize]_vars

\* a stored header is the redaction mark when its name holds a sensitive
\* keyword, and the given value otherwise
HeadersRedacted(given, stored) ==
    /\ DOMAIN stored = DOMAIN given
    /\ \A n \in DOMAIN given :
          stored[n] = IF IsSensitive(n, header_sensitive_keys) THEN REDACTED
                      ELSE given[n]

RECURSIVE BodyRedacted(_, _)
\* the same for the fields of a mapping body, at the top level and inside
\* its sub-mappings
BodyRedacted(given, stored) ==
    IF given.type = "dict"
    THEN /\ stored.type = "dict"
         /\ DOMAIN stored.fields = DOMAIN given.fields
         /\ \A k \in DOMAIN given.fields :
               IF IsSensitive(k, body_sensitive_keys)
               THEN stored.fields[k] = JStr(REDACTED)
               ELSE BodyRedacted(given.fields[k], stored.fields[k])
    ELSE stored = given

\* C28: log_api_request never stores the value of a sensitive field: every
\* header and every field of a mapping body, at the top level or in a
\* sub-mapping, whose name holds a sensitive keyword is stored as
\* '***REDACTED***', every other one unchanged.
C28_SensitiveRedacted ==
    \A i \in 1..Len(api_requests) :
        /\ HeadersRedacted(api_requests[i].headers,
                           log_entries[i].metadata.headers)
        /\ BodyRedacted(api_requests[i].body, log_entries[i].metadata.body)

\* ------------------------------------------------- APITestingDashboard
\* lst[-n:]
LastN(lst, n) ==
    IF Len(lst) <= n THEN lst ELSE SubSeq(lst, Len(lst) - n + 1, Len(lst))

dashboard_frame ==
    <<beside_dashboard_vars, client_vars, load_vars, check_vars>>

\* add_test_result, line 446: self.test_results.append(test_result)
AddAppend ==
    /\ adder.pc = "idle"
    /\ Len(inserted) < MaxInserted
    /\ LET test_result == Len(inserted) + 1
       IN /\ test_results' = Append(test_results, test_result)
          /\ inserted' = Append(inserted, test_result)
    /\ adder' = [adder EXCEPT !.pc = "appended"]
    /\ UNCHANGED <<dashboard_frame, system_metrics, collector, samples>>

\* lines 449-450, the right-hand side: len(self.test_results) > 1000 and
\* the slice self.test_results[-1000:], a new list
AddSlice ==
    /\ adder.pc = "appended"
    /\ adder' = IF Len(test_results) > ResultsLimit
                THEN [pc |-> "sliced", kept |-> LastN(test_results, ResultsLimit)]
                ELSE IdleAdder
    /\ UNCHANGED <<dashboard_frame, test_results, system_metrics, collector,
                   inserted, samples>>

\* line 450, the assignment: self.test_results = <the slice>; then the
\* emit and the log line
AddStore ==
    /\ adder.pc = "sliced"
    /\ test_results' = adder.kept
    /\ adder' = IdleAdder
    /\ UNCHANGED <<dashboard_frame, system_metrics, collector, inserted,
                   samples>>

\* background_data_collector, lines 267-286: a data point is appended to
\* the 'cpu' and to the 'memory' series
CollectMetrics ==
    /\ collector = "sleep"
    /\ samples < MaxSamples
    /\ samples' = samples + 1
    /\ system_metrics' =
          [series \in DOMAIN system_metrics |->
              Append(system_metrics[series], samples + 1)]
    /\ collector' = "truncate"
    /\ UNCHANGED <<dashboard_frame, test_results, adder, inserted>>

\* lines 289-294: every series is cut to its last 100 points
CollectTruncate ==
    /\ collector = "truncate"
    /\ system_metrics' =
          [series \in DOMAIN system_metrics |->
              IF Len(system_metrics[series]) > SeriesLimit
              THEN LastN(system_metrics[series], SeriesLimit)
              ELSE system_metrics[series]]
    /\ collector' = "check"
    /\ UNCHANGED <<dashboard_frame, test_results, adder, inserted, samples>>

\* line 297: if len(self.test_results) < 50
CollectCheck ==
    /\ collector = "check"
    /\ collector' = IF Len(test_results) < SampleLimit THEN "sample"
                    ELSE "sleep"
    /\ UNCHANGED <<dashboard_frame, test_results, system_metrics, adder,
                   inserted, samples>>

\* lines 298-300: a sample result is generated and appended
CollectSample ==
    /\ collector = "sample"
    /\ Len(inserted) < MaxInserted
    /\ LET sample_test == Len(inserted) + 1
       IN /\ test_results' = Append(test_results, sample_test)
          /\ inserted' = Append(inserted, sample_test)
    /\ collector' = "sleep"
    /\ UNCHANGED <<dashboard_frame, system_metrics, adder, samples>>

InitDashboard ==
    ConstructedWith(HTTPS \o <<"h">>, [timeout |-> 30, retry_count |-> 0])

NextDashboard ==
    \/ AddAppend
    \/ AddSlice
    \/ AddStore
    \/ CollectMetrics
    \/ CollectTruncate
    \/ CollectCheck
    \/ CollectSample

SpecDashboard == InitDashboard /\ [][NextDashboard]_vars

\* the entries kept are results that were appended, in the order in which
\* they were appended
InInsertionOrder(lst) ==
    \A i \in 1..Len(lst) : \A j \in 1..Len(lst) : i < j => lst[i] < lst[j]

Kept(test_result) == \E i \in 1..Len(test_results) : test_results[i] = test_result

\* C29: under every interleaving of add_test_result and the collector,
\* test_results holds at most the limit once add_test_result has returned,
\* every series holds at most its limit after the truncation step, what is
\* kept is in insertion order, and no result is dropped while fewer than
\* the limit of newer results exist.
C29_BoundedAndRecent ==
    /\ adder.pc = "idle" => Len(test_results) <= ResultsLimit
    /\ collector \in {"check", "sample", "sleep"} =>
          \A series \in DOMAIN system_metrics :
              Len(system_metrics[series]) <= SeriesLimit
    /\ InInsertionOrder(test_results)
    /\ \A i \in 1..Len(inserted) :
          ~Kept(inserted[i]) => Len(inserted) - i >= ResultsLimit

\* ------------------------------------- EnhancedLogger.__new__ / __init__
singleton_frame ==
    <<beside_singleton_vars, client_vars, load_vars, check_vars>>

\* line 88: if cls._instance is None (outside the lock)
NewCheck(t) ==
    /\ constructors[t].pc = "start"
    /\ constructors' = [constructors EXCEPT ![t].pc =
                           IF _instance = 0 THEN "acquire" ELSE "return"]
    /\ UNCHANGED <<singleton_frame, _instance, _lock, _initialized, objects,
                   init_runs>>

\* line 89: with cls._lock
NewAcquire(t) ==
    /\ constructors[t].pc = "acquire"
    /\ _lock = 0
    /\ _lock' = t
    /\ constructors' = [constructors EXCEPT ![t].pc = "locked"]
    /\ UNCHANGED <<singleton_frame, _instance, _initialized, objects,
                   init_runs>>

\* lines 90-91 and the end of the with block: the second test, the
\* object, the release
NewCreate(t) ==
    /\ constructors[t].pc = "locked"
    /\ IF _instance = 0
       THEN _instance' = objects + 1 /\ objects' = objects + 1
       ELSE UNCHANGED <<_instance, objects>>
    /\ _lock' = 0
    /\ constructors' = [constructors EXCEPT ![t].pc = "return"]
    /\ UNCHANGED <<singleton_frame, _initialized, init_runs>>

\* line 92: return cls._instance; type.__call__ goes on with __init__
NewReturn(t) ==
    /\ constructors[t].pc = "return"
    /\ constructors' = [constructors EXCEPT ![t].pc = "init",
                                            ![t].self = _instance]
    /\ UNCHANGED <<singleton_frame, _instance, _lock, _initialized, objects,
                   init_runs>>

\* lines 101-102: if hasattr(self, '_initialized'): return
InitCheck(t) ==
    /\ constructors[t].pc = "init"
    /\ constructors' = [constructors EXCEPT ![t].pc =
                           IF _initialized THEN "done" ELSE "set_flag"]
    /\ UNCHANGED <<singleton_frame, _instance, _lock, _initialized, objects,
                   init_runs>>

\* line 104: self._initialized = True
InitSetFlag(t) ==
    /\ constructors[t].pc = "set_flag"
    /\ _initialized' = TRUE
    /\ constructors' = [constructors EXCEPT ![t].pc = "body"]
    /\ UNCHANGED <<singleton_frame, _instance, _lock, objects, init_runs>>

\* lines 105-121: directories, log_entries = [], performance_metrics = [],
\* current_context = {}, the handlers of _setup_loggers (for the metrics
\* collector: the registry, the metrics, the monitoring thread)
InitBody(t) ==
    /\ constructors[t].pc = "body"
    /\ init_runs' = init_runs + 1
    /\ constructors' = [constructors EXCEPT ![t].pc = "done"]
    /\ UNCHANGED <<singleton_frame, _instance, _lock, _initialized, objects>>

InitSingleton ==
    ConstructedWith(HTTPS \o <<"h">>, [timeout |-> 30, retry_count |-> 0])

TestInstance == \E t \in Callers : NewCheck(t)
Acquire == \E t \in Callers : NewAcquire(t)
Create == \E t \in Callers : NewCreate(t)
ReturnInstance == \E t \in Callers : NewReturn(t)
TestInitialized == \E t \in Callers : InitCheck(t)
SetInitialized == \E t \in Callers : InitSetFlag(t)
RunBody == \E t \in Callers : InitBody(t)

NextSingleton ==
    \/ TestInstance
    \/ Acquire
    \/ Create
    \/ ReturnInstance
    \/ TestInitialized
    \/ SetInitialized
    \/ RunBody

SpecSingleton == InitSingleton /\ [][NextSingleton]_vars

=============================================================================
